---- MODULE Spec2Model ----
(***************************************************************************)
(* A model of the WHOIS pipeline facade (WhoisParser, parser.py) and of    *)
(* the record builder (records.py).                                        *)
(*                                                                         *)
(* Text is a sequence of symbols.  A symbol is a character or a fixed run  *)
(* of characters that the modelled operations never look inside (a label   *)
(* of a domain, a whole banner line).  Values handed around by the Python  *)
(* code are tagged with their Python type so that the schema validation of *)
(* msgspec can be modelled: [t |-> "none" | "str" | "list" | "int", v].    *)
(***************************************************************************)
EXTENDS Integers, Sequences, FiniteSets, TLC

VARIABLES parsers, pc, call, ret, yielded, registry_base, registry_overrides, rulesets

vars == <<parsers, pc, call, ret, yielded, registry_base, registry_overrides, rulesets>>

(***************************************************************************)
(* Bounds of the model.                                                    *)
(***************************************************************************)
MaxDomainLen == 4
MaxRawLen == 2
MaxBatch == 2
MaxChunk == 2
MaxListLen == 3
MaxTzLen == 4
MaxPatterns == 3
MaxNormLen == 4

(***************************************************************************)
(* Python values.                                                          *)
(***************************************************************************)
PyNone == [t |-> "none", v |-> <<>>]
PyStr(s) == [t |-> "str", v |-> s]
PyList(l) == [t |-> "list", v |-> l]
PyInt(n) == [t |-> "int", v |-> <<n>>]

IsNone(x) == x.t = "none"
IsStr(x) == x.t = "str"

\* Python truthiness of an Optional[str] / Optional[list]: None, "" and []
\* are falsy.
Truthy(x) == x.t # "none" /\ x.v # <<>>

BoundedSeq(S, n) == UNION {[1..k -> S] : k \in 0..n}

(***************************************************************************)
(* str.lower(), str.strip(), str.lstrip("."), str.strip("."), str.split    *)
(***************************************************************************)
LowerSym(c) ==
    CASE c = "UK" -> "uk"
      [] c = "OK" -> "ok"
      [] c = "Ok" -> "ok"
      [] c = "INFO" -> "info"
      [] c = "X" -> "x"
      [] c = "NS1" -> "ns1"
      [] c = "WHOIS LIMIT EXCEEDED" -> "whois limit exceeded"
      [] c = "Mystery" -> "mystery"
      [] c = "JST" -> "jst"
      [] c = "Utc" -> "utc"
      [] c = "T00:00:00Z" -> "t00:00:00z"
      [] OTHER -> c

Lower(s) == [i \in DOMAIN s |-> LowerSym(s[i])]

IsSpace(c) == c \in {" ", "\n"}

RECURSIVE LStripSet(_, _)
LStripSet(s, drop) ==
    IF s = <<>> THEN s
    ELSE IF Head(s) \in drop THEN LStripSet(Tail(s), drop) ELSE s

RECURSIVE RStripSet(_, _)
RStripSet(s, drop) ==
    IF s = <<>> THEN s
    ELSE IF s[Len(s)] \in drop THEN RStripSet(SubSeq(s, 1, Len(s) - 1), drop) ELSE s

Strip(s) == RStripSet(LStripSet(s, {" ", "\n"}), {" ", "\n"})
StripDots(s) == RStripSet(LStripSet(s, {"."}), {"."})

\* s.split("."): the pieces between the dots, empty pieces included.
RECURSIVE SplitDots(_, _)
SplitDots(s, cur) ==
    IF s = <<>> THEN <<cur>>
    ELSE IF Head(s) = "." THEN <<cur>> \o SplitDots(Tail(s), <<>>)
    ELSE SplitDots(Tail(s), Append(cur, Head(s)))

RECURSIVE JoinDots(_)
JoinDots(labels) ==
    IF labels = <<>> THEN <<>>
    ELSE IF Len(labels) = 1 THEN labels[1]
    ELSE labels[1] \o <<".">> \o JoinDots(Tail(labels))


(***************************************************************************)
(* parser.py: _normalise_tld, _split_domain                                *)
(***************************************************************************)
_normalise_tld(label) ==
    IF ~Truthy(label) THEN <<>>
    ELSE Lower(LStripSet(Strip(label.v), {"."}))

NonEmptySeg(seg) == seg # <<>>

_split_domain(domain) ==
    IF ~Truthy(domain) THEN <<>>
    ELSE SelectSeq(SplitDots(Lower(StripDots(Strip(domain.v))), <<>>), NonEmptySeg)

(***************************************************************************)
(* WhoisParser._select_tld: the explicit suffix wins; else the first       *)
(* candidate labels[start:] that is a key of the compiled-parser cache;    *)
(* else the last label; "" when there are no labels.                       *)
(***************************************************************************)
Candidate(labels, start) == JoinDots(SubSeq(labels, start, Len(labels)))

_select_tld_domain_first(cache, explicit_tld, domain) ==
    LET labels == _split_domain(domain)
        hits == {start \in 1..Len(labels) : Candidate(labels, start) \in cache}
    IN  IF hits # {} THEN Candidate(labels, CHOOSE s \in hits : \A h \in hits : s <= h)
        ELSE IF _normalise_tld(explicit_tld) # <<>> THEN _normalise_tld(explicit_tld)
        ELSE IF labels = <<>> THEN <<>>
        ELSE labels[Len(labels)]

_select_tld_least_specific(cache, explicit_tld, domain) ==
    LET target == _normalise_tld(explicit_tld)
        labels == _split_domain(domain)
        hits == {start \in 1..Len(labels) : Candidate(labels, start) \in cache}
    IN  IF target # <<>> THEN target
        ELSE IF labels = <<>> THEN <<>>
        ELSE IF hits # {} THEN Candidate(labels, CHOOSE s \in hits : \A h \in hits : s >= h)
        ELSE labels[Len(labels)]

_select_tld_no_fallback(cache, explicit_tld, domain) ==
    LET target == _normalise_tld(explicit_tld)
        labels == _split_domain(domain)
        hits == {start \in 1..Len(labels) : Candidate(labels, start) \in cache}
    IN  IF target # <<>> THEN target
        ELSE IF labels = <<>> THEN <<>>
        ELSE IF hits # {} THEN Candidate(labels, CHOOSE s \in hits : \A h \in hits : s <= h)
        ELSE JoinDots(labels)

_select_tld(cache, explicit_tld, domain) ==
    LET target == _normalise_tld(explicit_tld)
        labels == _split_domain(domain)
        hits == {start \in 1..Len(labels) : Candidate(labels, start) \in cache}
    IN  IF target # <<>> THEN target
        ELSE IF labels = <<>> THEN <<>>
        ELSE IF hits # {} THEN Candidate(labels, CHOOSE s \in hits : \A h \in hits : s <= h)
        ELSE labels[Len(labels)]

(***************************************************************************)
(* WhoisParser._get_parser_for_tld: the default parser for "", else the    *)
(* cached parser of the suffix, compiled and cached on first use.  The     *)
(* result is the cache after the call and the parser that is returned.     *)
(***************************************************************************)
DefaultParser == [kind |-> "default", tld |-> <<>>]
SuffixParser(tld) == [kind |-> "suffix", tld |-> tld]

_get_parser_for_tld(cache, tld) ==
    IF tld = <<>> THEN [cache |-> cache, parser |-> DefaultParser]
    ELSE [cache |-> cache \cup {tld}, parser |-> SuffixParser(tld)]

(***************************************************************************)
(* records.py: the rate-limit banners and is_rate_limited_payload.         *)
(* Every banner is one symbol: no operation looks inside it.               *)
(***************************************************************************)
WHOIS_RATE_LIMIT_MESSAGES ==
    { <<"WHOIS LIMIT EXCEEDED - SEE WWW.PIR.ORG/WHOIS FOR DETAILS">>,
      <<"Your access is too fast,please try again later.">>,
      <<"Your connection limit exceeded.">>,
      <<"Number of allowed queries exceeded.">>,
      <<"WHOIS LIMIT EXCEEDED">>,
      <<"Requests of this client are not permitted.">>,
      <<"Too many connection attempts. Please try again in a few seconds.">>,
      <<"We are unable to process your request at this time.">>,
      <<"HTTP/1.1 400 Bad Request">>,
      <<"Closing connections because of Timeout">>,
      <<"Access to whois service at whois.isoc.org.il was **DENIED**">>,
      <<"IP Address Has Reached Rate Limit">> }

\* is_rate_limited_payload looking for a banner anywhere in the text.
is_rate_limited_payload_contains(raw_text) ==
    \E i \in DOMAIN raw_text : <<raw_text[i]>> \in WHOIS_RATE_LIMIT_MESSAGES

is_rate_limited_payload(raw_text) == Strip(raw_text) \in WHOIS_RATE_LIMIT_MESSAGES

(***************************************************************************)
(* records.py: the date parser.  A date string is a sequence of symbols;   *)
(* "(" and ")" are symbols of their own, so that the trailing annotation   *)
(* is found as the regular expression finds it.  A timestamp is            *)
(* [t |-> "datetime", v |-> <<instant, offset>>]; the offset is the        *)
(* sequence of characters of +HH:MM, or Naive for tzinfo None.             *)
(***************************************************************************)
Datetime(instant, offset) == [t |-> "datetime", v |-> <<instant, offset>>]
NoMatch == [t |-> "nomatch", v |-> <<>>]
Naive == <<>>
Utc == <<"+", "0", "0", ":", "0", "0">>
Jst == <<"+", "0", "9", ":", "0", "0">>

\* An exception leaving a function.
Raised(error) == [t |-> "raise", v |-> <<error>>]

\* The characters of a symbol, for the code that slices a text by position.
SymChars(sym) ==
    CASE sym = "09" -> <<"0", "9">>
      [] sym = "00" -> <<"0", "0">>
      [] sym = "JST" -> <<"J", "S", "T">>
      [] sym = "jst" -> <<"j", "s", "t">>
      [] sym = "Utc" -> <<"U", "t", "c">>
      [] sym = "gmt" -> <<"g", "m", "t">>
      [] sym = "xyz" -> <<"x", "y", "z">>
      [] OTHER -> <<sym>>

RECURSIVE Chars(_)
Chars(s) == IF s = <<>> THEN <<>> ELSE SymChars(Head(s)) \o Chars(Tail(s))

\* str.upper() on characters.
UpperChar(c) ==
    CASE c = "j" -> "J" [] c = "s" -> "S" [] c = "t" -> "T" [] c = "c" -> "C"
      [] c = "g" -> "G" [] c = "m" -> "M"
      [] c = "x" -> "X" [] c = "y" -> "Y" [] c = "z" -> "Z"
      [] OTHER -> c

Upper(chars) == [i \in DOMAIN chars |-> UpperChar(chars[i])]

Digits == <<"0", "1", "2", "3", "4", "5", "6", "7", "8", "9">>
IsDigit(c) == \E i \in DOMAIN Digits : Digits[i] = c
DigitVal(c) == (CHOOSE i \in DOMAIN Digits : Digits[i] = c) - 1

\* datetime.strptime(text, "%z").tzinfo on characters: a sign, two digits of
\* hours, an optional colon, two digits of minutes below 60, the whole
\* below 24 hours; anything else is a ValueError.  (The forms with seconds
\* are longer than the annotations of the model.)
StrptimeError == <<"ValueError">>

Strptime_z(text) ==
    LET Offset(d) ==
            IF d = <<>> \/ text[1] \notin {"+", "-"} \/ \E i \in DOMAIN d : ~IsDigit(d[i])
            THEN StrptimeError
            ELSE IF DigitVal(d[3]) > 5 \/ DigitVal(d[1]) * 10 + DigitVal(d[2]) > 23
            THEN StrptimeError
            ELSE IF \A i \in DOMAIN d : d[i] = "0" THEN Utc
            ELSE <<text[1], d[1], d[2], ":", d[3], d[4]>>
    IN  Offset(IF Len(text) = 6 /\ text[4] = ":"
               THEN <<text[2], text[3], text[5], text[6]>>
               ELSE IF Len(text) = 5 THEN SubSeq(text, 2, 5)
               ELSE <<>>)

\* _TRAILING_PAREN_RE.search(value): blanks, "(", one or more characters
\* other than ")", ")", blanks, end of text.  The leftmost match opens at the
\* leftmost "(" that has no ")" between it and the closing one.
TrailingParen(value) ==
    LET Opens(body) ==
            IF body # <<>> /\ body[Len(body)] = ")"
            THEN {i \in 1..(Len(body) - 2) :
                     body[i] = "(" /\ \A j \in (i + 1)..(Len(body) - 1) : body[j] # ")"}
            ELSE {}
        Match(opens, close) ==
            IF opens = {} THEN [found |-> FALSE, open |-> 0, close |-> 0]
            ELSE [found |-> TRUE,
                  open |-> CHOOSE i \in opens : \A j \in opens : i <= j,
                  close |-> close]
    IN  Match(Opens(RStripSet(value, {" ", "\n"})), Len(RStripSet(value, {" ", "\n"})))

_strip_trailing_paren(value) ==
    LET Sub(m) ==
            IF m.found THEN RStripSet(SubSeq(value, 1, m.open - 1), {" ", "\n"}) ELSE value
    IN  Sub(TrailingParen(value))

\* tz is <<>> when there is no annotation (None in the code).
_extract_trailing_timezone(value) ==
    LET Split(m) ==
            IF m.found
            THEN [cleaned |-> Strip(SubSeq(value, 1, m.open - 1)),
                  tz |-> SubSeq(value, m.open + 1, m.close - 1)]
            ELSE [cleaned |-> value, tz |-> <<>>]
    IN  Split(TrailingParen(value))

\* str.replace(" .", "")
RECURSIVE RemoveSpaceDot(_)
RemoveSpaceDot(s) ==
    IF Len(s) < 2 THEN s
    ELSE IF s[1] = " " /\ s[2] = "." THEN RemoveSpaceDot(SubSeq(s, 3, Len(s)))
    ELSE <<s[1]>> \o RemoveSpaceDot(Tail(s))

\* _strip_periods: str.replace(" ", "")
_strip_periods(value) == SelectSeq(value, LAMBDA c : c # " ")

\* _FAST_DATETIME_FORMATS with datetime.strptime, on the symbols of the
\* model: each format is tried on the text its normalizer yields.
_try_fast_datetime_parse(value) ==
    CASE Strip(value) = <<"2020-01-01", "T00:00:00Z">> ->
             Datetime("2020-01-01T00:00:00", Utc)
      [] Strip(value) = <<"2020-01-01">> -> Datetime("2020-01-01T00:00:00", Naive)
      [] Strip(value) = <<"2020-01-01", " ", "00:00:00">> ->
             Datetime("2020-01-01T00:00:00", Naive)
      [] _strip_periods(value) = <<"2020.", "01.", "01.">> ->
             Datetime("2020-01-01T00:00:00", Naive)
      [] _strip_trailing_paren(value) = <<"2020/01/01", " ", "00:00:00">> ->
             Datetime("2020-01-01T00:00:00", Naive)
      [] OTHER -> NoMatch

\* formatted = tz if ":" in tz else f"{tz[:-2]}:{tz[-2:]}", slices by character.
FormattedOffset(chars) ==
    IF \E i \in DOMAIN chars : chars[i] = ":" THEN chars
    ELSE SubSeq(chars, 1, Len(chars) - 2) \o <<":">>
         \o SubSeq(chars, IF Len(chars) > 2 THEN Len(chars) - 1 ELSE 1, Len(chars))

\* The tzinfo a call of strptime inside _apply_timezone attaches, with
\* `except ValueError: return value`.
AttachOffset(value, offset) ==
    IF offset = StrptimeError THEN value ELSE Datetime(value.v[1], offset)

\* _apply_timezone with the ValueError of strptime left uncaught.
_apply_timezone_uncaught(value, tz) ==
    IF tz = <<>> THEN value
    ELSE IF Chars(tz)[1] \in {"+", "-"}
    THEN IF Strptime_z(FormattedOffset(Chars(tz))) = StrptimeError
         THEN Raised("ValueError")
         ELSE AttachOffset(value, Strptime_z(FormattedOffset(Chars(tz))))
    ELSE IF Upper(Chars(tz)) = <<"J", "S", "T">> THEN AttachOffset(value, Strptime_z(Jst))
    ELSE IF Upper(Chars(tz)) \in {<<"U", "T", "C">>, <<"G", "M", "T">>}
    THEN AttachOffset(value, Strptime_z(Utc))
    ELSE value

\* _apply_timezone attaching the offset only to a timestamp that has none.
_apply_timezone_keeps_own(value, tz) ==
    IF tz = <<>> \/ value.v[2] # Naive THEN value
    ELSE IF Chars(tz)[1] \in {"+", "-"}
    THEN AttachOffset(value, Strptime_z(FormattedOffset(Chars(tz))))
    ELSE IF Upper(Chars(tz)) = <<"J", "S", "T">> THEN AttachOffset(value, Strptime_z(Jst))
    ELSE IF Upper(Chars(tz)) \in {<<"U", "T", "C">>, <<"G", "M", "T">>}
    THEN AttachOffset(value, Strptime_z(Utc))
    ELSE value

_apply_timezone(value, tz) ==
    IF tz = <<>> THEN value
    ELSE IF Chars(tz)[1] \in {"+", "-"}
    THEN AttachOffset(value, Strptime_z(FormattedOffset(Chars(tz))))
    ELSE IF Upper(Chars(tz)) = <<"J", "S", "T">> THEN AttachOffset(value, Strptime_z(Jst))
    ELSE IF Upper(Chars(tz)) \in {<<"U", "T", "C">>, <<"G", "M", "T">>}
    THEN AttachOffset(value, Strptime_z(Utc))
    ELSE value

\* parse_datetime from `if not normalized` on: the text without its annotation
\* and without " .", and the annotation.
ParseNormalized(date_string, normalized, tz) ==
    IF normalized = <<>> THEN PyStr(date_string)
    ELSE IF _try_fast_datetime_parse(normalized) # NoMatch
    THEN _apply_timezone(_try_fast_datetime_parse(normalized), tz)
    ELSE PyStr(normalized)

parse_datetime(date_string) ==
    IF date_string = <<>> THEN PyStr(date_string)
    ELSE ParseNormalized(
             date_string,
             RemoveSpaceDot(_extract_trailing_timezone(Strip(date_string)).cleaned),
             _extract_trailing_timezone(Strip(date_string)).tz)

(***************************************************************************)
(* records.py: _WhoisPayload, the closed schema of the field mapping, and  *)
(* msgspec.convert(parsed, _WhoisPayload).  A field mapping is a function  *)
(* from keys to Python values; a key that is missing reads as None.        *)
(***************************************************************************)
ListKeys == {"name_servers", "status"}

ScalarKeys ==
    {"domain_name", "registrar", "registrar_id", "registrar_url",
     "creation_date", "updated_date", "expiration_date",
     "registrant_name", "registrant_organization", "registrant_email",
     "registrant_telephone",
     "admin_name", "admin_organization", "admin_email", "admin_telephone",
     "tech_name", "tech_organization", "tech_email", "tech_telephone",
     "dnssec", "abuse_email", "abuse_telephone"}

SchemaKeys == ScalarKeys \cup ListKeys

ValueFits(key, value) ==
    \/ value.t = "none"
    \/ key \in ScalarKeys /\ value.t = "str"
    \/ key \in ListKeys /\ value.t = "list"
                        /\ \A i \in DOMAIN value.v : value.v[i].t = "str"

ValidPayload(parsed) ==
    /\ DOMAIN parsed \subseteq SchemaKeys
    /\ \A k \in DOMAIN parsed : ValueFits(k, parsed[k])

Field(parsed, key) == IF key \in DOMAIN parsed THEN parsed[key] ELSE PyNone

(***************************************************************************)
(* records.py: _lower_if_needed, _prepare_list, _parse_date_field,         *)
(* _build_contact                                                          *)
(***************************************************************************)
\* _lower_if_needed ignoring the flag.
_lower_if_needed_never(value, lowercase) == value

_lower_if_needed(value, lowercase) ==
    IF value.t = "none" \/ ~lowercase THEN value ELSE PyStr(Lower(value.v))

\* The loop of _prepare_list over the truthy entries: `seen` holds the
\* lowercased keys met so far, the result is in input order.
RECURSIVE PrepareLoop(_, _, _)
PrepareLoop(filtered, seen, lowercase) ==
    IF filtered = <<>> THEN <<>>
    ELSE LET value == Head(filtered).v
             transformed == IF lowercase THEN Lower(value) ELSE value
             key == Lower(transformed)
         IN  IF key \in seen THEN PrepareLoop(Tail(filtered), seen, lowercase)
             ELSE <<transformed>> \o PrepareLoop(Tail(filtered), seen \cup {key}, lowercase)

\* _prepare_list without the `seen` set: every truthy entry is kept.
_prepare_list_no_dedup(values, lowercase) ==
    IF ~Truthy(values) THEN <<>>
    ELSE LET filtered == SelectSeq(values.v, Truthy)
         IN  [i \in DOMAIN filtered |->
                 IF lowercase THEN Lower(filtered[i].v) ELSE filtered[i].v]

\* _prepare_list keeping the last entry of each class instead of the first.
RECURSIVE PrepareLoop_keeps_last(_, _)
PrepareLoop_keeps_last(filtered, lowercase) ==
    IF filtered = <<>> THEN <<>>
    ELSE LET value == Head(filtered).v
             transformed == IF lowercase THEN Lower(value) ELSE value
             rest == Tail(filtered)
         IN  IF \E i \in DOMAIN rest : Lower(rest[i].v) = Lower(value)
             THEN PrepareLoop_keeps_last(rest, lowercase)
             ELSE <<transformed>> \o PrepareLoop_keeps_last(rest, lowercase)

_prepare_list_keeps_last(values, lowercase) ==
    IF ~Truthy(values) THEN <<>>
    ELSE PrepareLoop_keeps_last(SelectSeq(values.v, Truthy), lowercase)

_prepare_list(values, lowercase) ==
    IF ~Truthy(values) THEN <<>>
    ELSE PrepareLoop(SelectSeq(values.v, Truthy), {}, lowercase)

_parse_date_field(value, lowercase) ==
    IF ~Truthy(value) THEN PyNone
    ELSE LET Lowered(parsed) ==
                 IF parsed.t = "str" /\ lowercase THEN PyStr(Lower(parsed.v)) ELSE parsed
         IN  Lowered(parse_datetime(value.v))

_build_contact(name, email, organization, telephone, lowercase) ==
    [name |-> _lower_if_needed(name, lowercase),
     email |-> _lower_if_needed(email, lowercase),
     organization |-> _lower_if_needed(organization, lowercase),
     telephone |-> _lower_if_needed(telephone, lowercase)]

(***************************************************************************)
(* records.py: build_whois_record.  The outcome is                         *)
(* [status |-> "ok", records |-> <<record>>] or, when the mapping does not *)
(* fit the schema, [status |-> "ValueError", records |-> <<>>] (the        *)
(* ValueError("Invalid WHOIS payload") raised from msgspec's error).       *)
(***************************************************************************)
WhoisRecord(raw_text, payload, lowercase, limited) ==
    [raw_text |-> raw_text,
     registrant |-> _build_contact(Field(payload, "registrant_name"),
                                   Field(payload, "registrant_email"),
                                   Field(payload, "registrant_organization"),
                                   Field(payload, "registrant_telephone"), lowercase),
     admin |-> _build_contact(Field(payload, "admin_name"),
                              Field(payload, "admin_email"),
                              Field(payload, "admin_organization"),
                              Field(payload, "admin_telephone"), lowercase),
     tech |-> _build_contact(Field(payload, "tech_name"),
                             Field(payload, "tech_email"),
                             Field(payload, "tech_organization"),
                             Field(payload, "tech_telephone"), lowercase),
     abuse |-> [email |-> _lower_if_needed(Field(payload, "abuse_email"), lowercase),
                telephone |-> _lower_if_needed(Field(payload, "abuse_telephone"), lowercase)],
     statuses |-> _prepare_list(Field(payload, "status"), lowercase),
     name_servers |-> _prepare_list(Field(payload, "name_servers"), lowercase),
     domain |-> _lower_if_needed(Field(payload, "domain_name"), lowercase),
     registrar |-> _lower_if_needed(Field(payload, "registrar"), lowercase),
     registrar_id |-> _lower_if_needed(Field(payload, "registrar_id"), lowercase),
     registrar_url |-> _lower_if_needed(Field(payload, "registrar_url"), lowercase),
     dnssec |-> _lower_if_needed(Field(payload, "dnssec"), lowercase),
     registered_at |-> _parse_date_field(Field(payload, "creation_date"), lowercase),
     updated_at |-> _parse_date_field(Field(payload, "updated_date"), lowercase),
     expires_at |-> _parse_date_field(Field(payload, "expiration_date"), lowercase),
     is_rate_limited |-> limited]

build_whois_record_no_validation(raw_text, parsed, lowercase) ==
    [status |-> "ok",
     records |-> <<WhoisRecord(raw_text,
                               [k \in {x \in DOMAIN parsed \cap SchemaKeys :
                                          ValueFits(x, parsed[x])} |-> parsed[k]],
                               lowercase, is_rate_limited_payload(raw_text))>>]

build_whois_record(raw_text, parsed, lowercase) ==
    IF ~ValidPayload(parsed) THEN [status |-> "ValueError", records |-> <<>>]
    ELSE [status |-> "ok",
          records |-> <<WhoisRecord(raw_text, parsed, lowercase,
                                    is_rate_limited_payload(raw_text))>>]

\* A call of build_whois_record(raw_text, parsed, lowercase=...) with or
\* without a date_parser keyword.  The signature has no such parameter: the
\* call raises TypeError before the body runs.
call_build_whois_record(raw_text, parsed, lowercase, date_parser) ==
    IF date_parser # "absent" THEN [status |-> "TypeError", records |-> <<>>]
    ELSE build_whois_record(raw_text, parsed, lowercase)

(***************************************************************************)
(* records.py: WhoisRecord.to_dict.  msgspec.to_builtins builds a new      *)
(* value from the record: a contact struct becomes a dict of its fields, a *)
(* timestamp the text of its wall-clock time followed by nothing (naive),  *)
(* by "Z" (UTC) or by its offset +HH:MM; texts, lists, booleans and None   *)
(* stay as they are.  A dict is [t |-> "dict", v |-> fields].  The outcome *)
(* of to_dict is the record after the call and the value returned.         *)
(***************************************************************************)
PyDict(fields) == [t |-> "dict", v |-> fields]
ContactKeys == {"registrant", "admin", "tech", "abuse"}
TimestampKeys == {"registered_at", "updated_at", "expires_at"}

isoformat(value) ==
    PyStr(<<value.v[1]>> \o (IF value.v[2] = Utc THEN <<"Z">> ELSE value.v[2]))

to_builtins(self) ==
    [k \in DOMAIN self |->
        IF k \in ContactKeys THEN PyDict(self[k])
        ELSE IF k \in TimestampKeys /\ self[k].t = "datetime" THEN isoformat(self[k])
        ELSE self[k]]

\* to_dict with the key popped from the record's own fields as well.
to_dict_pops_self(self, include_raw_text) ==
    [self |-> IF include_raw_text THEN self
              ELSE [k \in DOMAIN self \ {"raw_text"} |-> self[k]],
     data |-> IF include_raw_text THEN to_builtins(self)
              ELSE [k \in DOMAIN self \ {"raw_text"} |-> to_builtins(self)[k]]]

to_dict(self, include_raw_text) ==
    [self |-> self,
     data |-> IF include_raw_text THEN to_builtins(self)
              ELSE [k \in DOMAIN self \ {"raw_text"} |-> to_builtins(self)[k]]]

(***************************************************************************)
(* normalization.py: normalize_raw_text.  The text is cut into lines at    *)
(* "\n"; a line is a sequence of symbols.  Four steps in order: wrapped    *)
(* fields are collapsed, the text from the last domain-identifying line on *)
(* is kept, the contacts defined as separate blocks are written out as     *)
(* label lines appended to the text, and a non-empty text is made to end   *)
(* with a newline.                                                         *)
(***************************************************************************)
DomainLineSyms == {"Domain Name: X.INFO", "Domain Name: old.example"}
DomainLabelSyms == {"Domain Name:"}
LabelSyms ==
    DomainLabelSyms
    \cup {"Registrar:", "holder-c:", "admin-c:", "tech-c:", "nic-hdl:", "type:",
          "contact:", "e-mail:", "phone:"}

\* str.split("\n") and "\n".join(lines)
RECURSIVE SplitLines(_, _)
SplitLines(text, cur) ==
    IF text = <<>> THEN <<cur>>
    ELSE IF Head(text) = "\n" THEN <<cur>> \o SplitLines(Tail(text), <<>>)
    ELSE SplitLines(Tail(text), Append(cur, Head(text)))

RECURSIVE JoinLines(_)
JoinLines(lines) ==
    IF lines = <<>> THEN <<>>
    ELSE IF Len(lines) = 1 THEN lines[1]
    ELSE lines[1] \o <<"\n">> \o JoinLines(Tail(lines))

EndWithNewline(text) ==
    IF text # <<>> /\ text[Len(text)] = "\n" THEN text ELSE Append(text, "\n")

\* A line that is a label and nothing after its colon.
IsBareLabel(line) == Len(Strip(line)) = 1 /\ Strip(line)[1] \in LabelSyms

\* Step 1: a bare label followed by a non-empty line becomes "Label: value",
\* and the following line is consumed.
RECURSIVE _collapse_wrapped_fields(_)
_collapse_wrapped_fields(lines) ==
    IF lines = <<>> THEN <<>>
    ELSE IF Len(lines) > 1 /\ IsBareLabel(lines[1]) /\ Strip(lines[2]) # <<>>
    THEN <<Strip(lines[1]) \o <<" ">> \o Strip(lines[2])>>
             \o _collapse_wrapped_fields(SubSeq(lines, 3, Len(lines)))
    ELSE <<lines[1]>> \o _collapse_wrapped_fields(Tail(lines))

\* Step 2: the lines from the last domain-identifying line on; all of them
\* when there is none.
IsDomainLine(line) ==
    Strip(line) # <<>> /\ Strip(line)[1] \in DomainLineSyms \cup DomainLabelSyms

\* _slice_from_last_domain cutting at the first domain-identifying line.
_slice_from_last_domain_first(lines) ==
    LET at == {i \in DOMAIN lines : IsDomainLine(lines[i])}
    IN  IF at = {} THEN lines
        ELSE SubSeq(lines, CHOOSE i \in at : \A j \in at : i <= j, Len(lines))

_slice_from_last_domain(lines) ==
    LET at == {i \in DOMAIN lines : IsDomainLine(lines[i])}
    IN  IF at = {} THEN lines
        ELSE SubSeq(lines, CHOOSE i \in at : \A j \in at : j <= i, Len(lines))

\* Step 3.  A line "key: value" is <<key, " ">> \o value.
AttrKey(line) ==
    IF Len(Strip(line)) >= 3 /\ Strip(line)[2] = " " THEN Strip(line)[1] ELSE ""

AttrValue(line) == SubSeq(Strip(line), 3, Len(Strip(line)))

\* The value of the last line with this key among lines[from..to], <<>> if none.
LastAttr(lines, key, from, to) ==
    LET Value(at) ==
            IF at = {} THEN <<>>
            ELSE AttrValue(lines[CHOOSE i \in at : \A j \in at : j <= i])
    IN  Value({i \in from..to : AttrKey(lines[i]) = key})

Roles == <<"holder-c:", "admin-c:", "tech-c:">>
RolePrefixes == <<"Registrant", "Admin", "Tech">>

\* role -> handle id, <<>> for a role that is not referenced.
_extract_afnic_handles(lines) ==
    [r \in DOMAIN Roles |-> LastAttr(lines, Roles[r], 1, Len(lines))]

\* The definition block of a handle: the lines after its nic-hdl line up to
\* the next empty line or nic-hdl line.
BlockEnd(lines, start) ==
    LET End(stops) ==
            IF stops = {} THEN Len(lines)
            ELSE (CHOOSE j \in stops : \A k \in stops : j <= k) - 1
    IN  End({j \in (start + 1)..Len(lines) :
                Strip(lines[j]) = <<>> \/ AttrKey(lines[j]) = "nic-hdl:"})

\* The attributes of the block lines[start..end]: the last value of each.
ContactBlock(lines, start, end) ==
    [contact |-> LastAttr(lines, "contact:", start, end),
     type |-> LastAttr(lines, "type:", start, end),
     email |-> LastAttr(lines, "e-mail:", start, end),
     phone |-> LastAttr(lines, "phone:", start, end)]

_extract_afnic_contact_blocks(lines) ==
    LET defs == {i \in DOMAIN lines : AttrKey(lines[i]) = "nic-hdl:"}
        Start(h) == CHOOSE i \in defs :
                       /\ AttrValue(lines[i]) = h
                       /\ \A j \in defs : AttrValue(lines[j]) = h => j <= i
    IN  [h \in {AttrValue(lines[i]) : i \in defs} |->
            ContactBlock(lines, Start(h), BlockEnd(lines, Start(h)))]

\* The label lines of one role: the organization name for a handle of type
\* organization, else the contact name; then the email and the phone that
\* are present.
_build_afnic_contact_lines(prefix, attrs) ==
    (IF attrs.contact = <<>> THEN <<>>
     ELSE << <<prefix, " ",
               IF attrs.type = <<"ORGANIZATION">> THEN "Organization:" ELSE "Name:",
               " ">> \o attrs.contact >>)
    \o (IF attrs.email = <<>> THEN <<>> ELSE << <<prefix, " ", "Email:", " ">> \o attrs.email >>)
    \o (IF attrs.phone = <<>> THEN <<>> ELSE << <<prefix, " ", "Phone:", " ">> \o attrs.phone >>)

RECURSIVE AfnicAdditions(_, _, _)
AfnicAdditions(handles, blocks, r) ==
    IF r > Len(Roles) THEN <<>>
    ELSE (IF handles[r] \in DOMAIN blocks
          THEN _build_afnic_contact_lines(RolePrefixes[r], blocks[handles[r]])
          ELSE <<>>)
         \o AfnicAdditions(handles, blocks, r + 1)

_inject_afnic_contacts(text) ==
    LET Inject(additions) ==
            IF additions = <<>> THEN text
            ELSE EndWithNewline(text) \o JoinLines(additions) \o <<"\n">>
    IN  Inject(AfnicAdditions(_extract_afnic_handles(SplitLines(text, <<>>)),
                              _extract_afnic_contact_blocks(SplitLines(text, <<>>)), 1))

\* normalize_raw_text without the last step.
normalize_raw_text_no_newline(text) ==
    IF text = <<>> THEN <<>>
    ELSE _inject_afnic_contacts(
             JoinLines(_slice_from_last_domain(
                 _collapse_wrapped_fields(SplitLines(text, <<>>)))))

normalize_raw_text(text) ==
    IF text = <<>> THEN <<>>
    ELSE EndWithNewline(_inject_afnic_contacts(
             JoinLines(_slice_from_last_domain(
                 _collapse_wrapped_fields(SplitLines(text, <<>>))))))

NormalizeAll(texts) == [i \in DOMAIN texts |-> normalize_raw_text(texts[i])]

(***************************************************************************)
(* The extraction engine (structly) is outside the repository.  What it    *)
(* returns for a call is chosen by the environment and handed to the       *)
(* operators below as engine_out; the texts it was given are recorded as   *)
(* engine_in.  Its chunked form yields its results in groups of chunk_size.*)
(***************************************************************************)
RECURSIVE Chunked(_, _)
Chunked(items, chunk_size) ==
    IF items = <<>> THEN <<>>
    ELSE IF Len(items) <= chunk_size THEN <<items>>
    ELSE <<SubSeq(items, 1, chunk_size)>>
             \o Chunked(SubSeq(items, chunk_size + 1, Len(items)), chunk_size)

NoParser == [kind |-> "none", tld |-> <<>>]

\* What a call leaves behind: the outcome, the value returned, the suffix
\* resolved, the parser used, and the texts normalized and given to the engine.
Outcome(status, records, mappings, chunks, tld, parser, normalized, engine_in) ==
    [status |-> status, records |-> records, mappings |-> mappings, chunks |-> chunks,
     tld |-> tld, parser |-> parser, normalized |-> normalized, engine_in |-> engine_in]

NoOutcome == Outcome("none", <<>>, <<>>, <<>>, <<>>, NoParser, <<>>, <<>>)

(***************************************************************************)
(* WhoisParser.parse: normalize, resolve the suffix, fetch the parser, and *)
(* return the engine's mapping as it is.  The domain argument is used for  *)
(* the suffix resolution only.                                             *)
(***************************************************************************)
parse_hint_overwrites(cache, raw_text, domain, tld, engine_out) ==
    LET text == normalize_raw_text(raw_text)
        target_tld == _select_tld(cache, tld, domain)
        got == _get_parser_for_tld(cache, target_tld)
    IN  [cache |-> got.cache,
         out |-> Outcome("ok", <<>>,
                         <<IF Truthy(domain)
                           THEN [k \in DOMAIN engine_out \cup {"domain_name"} |->
                                    IF k = "domain_name" THEN domain ELSE engine_out[k]]
                           ELSE engine_out>>,
                         <<>>, target_tld, got.parser, <<text>>, <<text>>)]

parse(cache, raw_text, domain, tld, engine_out) ==
    LET Parsed(text, target_tld) ==
            [cache |-> _get_parser_for_tld(cache, target_tld).cache,
             out |-> Outcome("ok", <<>>, <<engine_out>>, <<>>, target_tld,
                             _get_parser_for_tld(cache, target_tld).parser,
                             <<text>>, <<text>>)]
    IN  Parsed(normalize_raw_text(raw_text), _select_tld(cache, tld, domain))

(***************************************************************************)
(* WhoisParser.parse_record: a rate-limit banner is built from the empty   *)
(* mapping without normalizing or parsing; any other text is parsed and    *)
(* the mapping is built into a record.                                     *)
(***************************************************************************)
parse_record_no_short_circuit(cache, raw_text, domain, tld, lowercase, engine_out) ==
    LET parsed == parse(cache, raw_text, domain, tld, engine_out)
        built == build_whois_record(raw_text, parsed.out.mappings[1], lowercase)
    IN  [cache |-> parsed.cache,
         out |-> [parsed.out EXCEPT !.status = built.status,
                                    !.records = built.records,
                                    !.mappings = <<>>]]

parse_record(cache, raw_text, domain, tld, lowercase, engine_out) ==
    LET Limited(built) ==
            [cache |-> cache,
             out |-> Outcome(built.status, built.records, <<>>, <<>>, <<>>, NoParser,
                             <<>>, <<>>)]
        Record(parsed, built) ==
            [cache |-> parsed.cache,
             out |-> [parsed.out EXCEPT !.status = built.status,
                                        !.records = built.records,
                                        !.mappings = <<>>]]
        Build(parsed) ==
            Record(parsed, build_whois_record(raw_text, parsed.out.mappings[1], lowercase))
    IN  IF is_rate_limited_payload(raw_text)
        THEN Limited(build_whois_record(raw_text, <<>>, lowercase))
        ELSE Build(parse(cache, raw_text, domain, tld, engine_out))

(***************************************************************************)
(* WhoisParser.parse_many: one suffix for the whole batch; the engine's    *)
(* batch call on the normalized texts; with to_records the raw texts are   *)
(* zipped with the engine's mappings and each pair is built into a record. *)
(* zip stops at the shorter of the two.                                    *)
(***************************************************************************)
MinOf(a, b) == IF a <= b THEN a ELSE b

ZipBuild(raw_payloads, parsed_payloads, lowercase) ==
    LET n == MinOf(Len(raw_payloads), Len(parsed_payloads))
        Zipped(built) ==
            IF \E i \in 1..n : built[i].status # "ok"
            THEN [status |-> "ValueError", records |-> <<>>]
            ELSE [status |-> "ok", records |-> [i \in 1..n |-> built[i].records[1]]]
    IN  Zipped([i \in 1..n |->
                   build_whois_record(raw_payloads[i], parsed_payloads[i], lowercase)])

ZipBuild_reversed(raw_payloads, parsed_payloads, lowercase) ==
    LET n == MinOf(Len(raw_payloads), Len(parsed_payloads))
        built == [i \in 1..n |->
                     build_whois_record(raw_payloads[n + 1 - i], parsed_payloads[i],
                                        lowercase)]
    IN  IF \E i \in 1..n : built[i].status # "ok"
        THEN [status |-> "ValueError", records |-> <<>>]
        ELSE [status |-> "ok", records |-> [i \in 1..n |-> built[i].records[1]]]

parse_many_reversed(cache, payloads, domain, tld, to_records, lowercase, engine_out) ==
    LET target_tld == _select_tld(cache, tld, domain)
        got == _get_parser_for_tld(cache, target_tld)
        texts == NormalizeAll(payloads)
        zipped == ZipBuild_reversed(payloads, engine_out, lowercase)
    IN  [cache |-> got.cache,
         out |-> IF to_records
                 THEN Outcome(zipped.status, zipped.records, <<>>, <<>>, target_tld,
                              got.parser, texts, texts)
                 ELSE Outcome("ok", <<>>, engine_out, <<>>, target_tld, got.parser,
                              texts, texts)]

parse_many(cache, payloads, domain, tld, to_records, lowercase, engine_out) ==
    LET Batch(target_tld, texts, zipped) ==
            [cache |-> _get_parser_for_tld(cache, target_tld).cache,
             out |-> IF to_records
                     THEN Outcome(zipped.status, zipped.records, <<>>, <<>>, target_tld,
                                  _get_parser_for_tld(cache, target_tld).parser,
                                  texts, texts)
                     ELSE Outcome("ok", <<>>, engine_out, <<>>, target_tld,
                                  _get_parser_for_tld(cache, target_tld).parser,
                                  texts, texts)]
    IN  Batch(_select_tld(cache, tld, domain), NormalizeAll(payloads),
              ZipBuild(payloads, engine_out, lowercase))

(***************************************************************************)
(* WhoisParser.parse_chunks: as parse_many without records, the engine     *)
(* yielding its mappings in chunks.                                        *)
(***************************************************************************)
\* parse_chunks asking the engine for chunks one larger than requested.
parse_chunks_larger(cache, payloads, domain, tld, chunk_size, engine_out) ==
    LET Chunks(target_tld, texts) ==
            [cache |-> _get_parser_for_tld(cache, target_tld).cache,
             out |-> Outcome("ok", <<>>, <<>>, Chunked(engine_out, chunk_size + 1),
                             target_tld, _get_parser_for_tld(cache, target_tld).parser,
                             texts, texts)]
    IN  Chunks(_select_tld(cache, tld, domain), NormalizeAll(payloads))

parse_chunks(cache, payloads, domain, tld, chunk_size, engine_out) ==
    LET Chunks(target_tld, texts) ==
            [cache |-> _get_parser_for_tld(cache, target_tld).cache,
             out |-> Outcome("ok", <<>>, <<>>, Chunked(engine_out, chunk_size), target_tld,
                             _get_parser_for_tld(cache, target_tld).parser, texts, texts)]
    IN  Chunks(_select_tld(cache, tld, domain), NormalizeAll(payloads))

(***************************************************************************)
(* config.py: the rule registry (StructlyConfigFactory).  A pattern is its *)
(* canonical value.  Of a field specification the model keeps the ordered  *)
(* pattern list only: base_fields maps a field to its base patterns.  An   *)
(* override layer is a mapping from some of "patterns" (replacement),      *)
(* "prepend_patterns" and "extend_patterns" to pattern lists; the stored   *)
(* overrides map a suffix to a mapping from fields to layers.  A ruleset   *)
(* maps every field to its composed pattern list.                          *)
(***************************************************************************)
NoLayer == <<>>
Put(m, k, value) == [x \in DOMAIN m \cup {k} |-> IF x = k THEN value ELSE m[x]]
Remove(m, k) == [x \in DOMAIN m \ {k} |-> m[x]]
Given(override, key) == IF key \in DOMAIN override THEN override[key] ELSE <<>>

\* The first occurrence of every pattern, in order.
RECURSIVE Dedup(_, _)
Dedup(patterns, seen) ==
    IF patterns = <<>> THEN <<>>
    ELSE IF Head(patterns) \in seen THEN Dedup(Tail(patterns), seen)
    ELSE <<Head(patterns)>> \o Dedup(Tail(patterns), seen \cup {Head(patterns)})

\* The layers laid over the base patterns, without any deduplication.
Layered(base_def, override) ==
    Given(override, "prepend_patterns")
    \o (IF "patterns" \in DOMAIN override THEN override["patterns"] ELSE base_def)
    \o Given(override, "extend_patterns")

\* Composition that keeps every occurrence of a pattern.
_build_field_spec_keeps_duplicates(base_def, override) == Layered(base_def, override)

_build_field_spec(base_def, override) == Dedup(Layered(base_def, override), {})

LayerOf(tld_overrides, tld, field) ==
    IF tld \in DOMAIN tld_overrides /\ field \in DOMAIN tld_overrides[tld]
    THEN tld_overrides[tld][field] ELSE NoLayer

\* compile(suffix | null); the default ruleset is that of the suffix "".
build_structly_config_for_tld(base_fields, tld_overrides, tld) ==
    [field \in DOMAIN base_fields
               \cup (IF tld \in DOMAIN tld_overrides THEN DOMAIN tld_overrides[tld] ELSE {}) |->
        _build_field_spec(IF field \in DOMAIN base_fields THEN base_fields[field] ELSE <<>>,
                          LayerOf(tld_overrides, tld, field))]

\* register_base(field, spec).
register_base_field(base_fields, field, patterns) == Put(base_fields, field, patterns)

\* extend_base(field, patch): an unknown field is an error.
extend_base_field(base_fields, field, patch) ==
    IF field \notin DOMAIN base_fields
    THEN [status |-> "KeyError", base_fields |-> base_fields]
    ELSE [status |-> "ok",
          base_fields |-> Put(base_fields, field, Layered(base_fields[field], patch))]

\* register_suffix(suffix, overrides, replace): the layers of the fields
\* given are merged key by key into the stored ones, or take their place
\* with replace.
MergeLayer(stored, override) ==
    [key \in DOMAIN stored \cup DOMAIN override |->
        IF key \in DOMAIN override THEN override[key] ELSE stored[key]]

MergeOverrides(stored, overrides, replace) ==
    [field \in DOMAIN stored \cup DOMAIN overrides |->
        IF field \notin DOMAIN overrides THEN stored[field]
        ELSE IF replace \/ field \notin DOMAIN stored THEN overrides[field]
        ELSE MergeLayer(stored[field], overrides[field])]

StoredFor(tld_overrides, suffix) ==
    IF suffix \in DOMAIN tld_overrides THEN tld_overrides[suffix] ELSE <<>>

factory_register_tld(tld_overrides, tld, overrides, replace) ==
    IF _normalise_tld(tld) = <<>>
    THEN [status |-> "ValueError", tld_overrides |-> tld_overrides]
    ELSE [status |-> "ok",
          tld_overrides |->
              Put(tld_overrides, _normalise_tld(tld),
                  MergeOverrides(StoredFor(tld_overrides, _normalise_tld(tld)),
                                 overrides, replace))]

(***************************************************************************)
(* WhoisParser._build_structly_parser: a parser is the ruleset it was      *)
(* compiled from.                                                          *)
(***************************************************************************)
_build_structly_parser(base_fields, tld_overrides, tld) ==
    build_structly_config_for_tld(base_fields, tld_overrides, tld)

\* _parsers after a call that left it with the keys of cache: the parsers
\* it held stay, a key that is new is compiled from the stored overrides.
Compiled(held, cache, base_fields, tld_overrides) ==
    [tld \in cache |->
        IF tld \in DOMAIN held THEN held[tld]
        ELSE _build_structly_parser(base_fields, tld_overrides, tld)]

(***************************************************************************)
(* WhoisParser.register_tld: an empty label is refused before anything is  *)
(* stored; the overrides are stored in the registry; with preload the      *)
(* parser of the suffix is compiled and cached, without it the cached      *)
(* parser, if any, is dropped.  held is _parsers with its rulesets.        *)
(***************************************************************************)
\* register_tld without the test of the label.
register_tld_unchecked(held, base_fields, tld_overrides, tld, overrides, replace, preload) ==
    LET Registered(normalized, stored) ==
            [rulesets |-> IF preload
                          THEN Put(held, normalized,
                                   _build_structly_parser(base_fields, stored, normalized))
                          ELSE Remove(held, normalized),
             tld_overrides |-> stored,
             out |-> Outcome("ok", <<>>, <<>>, <<>>, normalized, NoParser, <<>>, <<>>)]
    IN  Registered(_normalise_tld(tld),
                   Put(tld_overrides, _normalise_tld(tld),
                       MergeOverrides(StoredFor(tld_overrides, _normalise_tld(tld)),
                                      overrides, replace)))

\* register_tld with preload keeping a parser that is cached already.
register_tld_keeps_cached(held, base_fields, tld_overrides, tld, overrides, replace, preload) ==
    LET Registered(normalized, stored) ==
            [rulesets |-> IF preload
                          THEN IF normalized \in DOMAIN held THEN held
                               ELSE Put(held, normalized,
                                        _build_structly_parser(base_fields, stored, normalized))
                          ELSE Remove(held, normalized),
             tld_overrides |-> stored,
             out |-> Outcome("ok", <<>>, <<>>, <<>>, normalized, NoParser, <<>>, <<>>)]
    IN  IF _normalise_tld(tld) = <<>>
        THEN [rulesets |-> held, tld_overrides |-> tld_overrides,
              out |-> Outcome("ValueError", <<>>, <<>>, <<>>, <<>>, NoParser, <<>>, <<>>)]
        ELSE Registered(_normalise_tld(tld),
                        factory_register_tld(tld_overrides, PyStr(_normalise_tld(tld)),
                                             overrides, replace).tld_overrides)

register_tld(held, base_fields, tld_overrides, tld, overrides, replace, preload) ==
    LET Registered(normalized, stored) ==
            [rulesets |-> IF preload
                          THEN Put(held, normalized,
                                   _build_structly_parser(base_fields, stored, normalized))
                          ELSE Remove(held, normalized),
             tld_overrides |-> stored,
             out |-> Outcome("ok", <<>>, <<>>, <<>>, normalized, NoParser, <<>>, <<>>)]
    IN  IF _normalise_tld(tld) = <<>>
        THEN [rulesets |-> held, tld_overrides |-> tld_overrides,
              out |-> Outcome("ValueError", <<>>, <<>>, <<>>, <<>>, NoParser, <<>>, <<>>)]
        ELSE Registered(_normalise_tld(tld),
                        factory_register_tld(tld_overrides, PyStr(_normalise_tld(tld)),
                                             overrides, replace).tld_overrides)

(***************************************************************************)
(* WhoisParser.__init__: the suffixes of preload_tlds and of the keys of   *)
(* extra_tld_overrides are normalised, the empty one is skipped, and a     *)
(* parser is compiled for each.                                            *)
(***************************************************************************)
construct(preload_tlds, extra_tld_overrides) ==
    {_normalise_tld(t) : t \in preload_tlds \cup extra_tld_overrides} \ {<<>>}

\* The overrides the registry stores after __init__ has registered the keys
\* of extra_tld_overrides, each with no layer.
constructed_overrides(extra_tld_overrides) ==
    [tld \in {_normalise_tld(t) : t \in extra_tld_overrides} |-> <<>>]

(***************************************************************************)
(* WhoisParser.supported_tlds: the keys of _parsers, sorted as texts.  The *)
(* symbols of a suffix are ordered as their first characters are.          *)
(***************************************************************************)
SymbolOrder == <<" ", ".", "co", "uk">>
SymbolRank(sym) == CHOOSE i \in DOMAIN SymbolOrder : SymbolOrder[i] = sym

RECURSIVE TextBefore(_, _)
TextBefore(a, b) ==
    IF a = <<>> THEN b # <<>>
    ELSE IF b = <<>> THEN FALSE
    ELSE IF Head(a) = Head(b) THEN TextBefore(Tail(a), Tail(b))
    ELSE SymbolRank(Head(a)) < SymbolRank(Head(b))

RECURSIVE sorted(_)
sorted(keys) ==
    IF keys = {} THEN <<>>
    ELSE LET Rest(first) == <<first>> \o sorted(keys \ {first})
         IN  Rest(CHOOSE k \in keys : \A other \in keys \ {k} : TextBefore(k, other))

supported_tlds(cache) == sorted(cache)

(***************************************************************************)
(* The inputs of the model.                                                *)
(***************************************************************************)
PreloadTlds == {PyStr(<<" ", ".", "co", ".", "UK">>), PyStr(<<>>)}
ExtraTlds == {PyStr(<<"UK">>)}

\* Suffix and domain hints of the parse calls.
TldHints == {PyNone, PyStr(<<" ", ".", "UK">>)}
DomainHints == {PyNone, PyStr(<<>>), PyStr(<<"x", ".", "uk">>),
                PyStr(<<"a", ".", "co", ".", "uk">>)}

\* Arguments of a direct suffix resolution.
DomainAlphabet == {"co", "uk", "UK", ".", " "}
ExampleDomain == <<"a", ".", "b", ".", "co", ".", "uk">>
SelectDomains ==
    {PyNone} \cup {PyStr(d) : d \in BoundedSeq(DomainAlphabet, MaxDomainLen) \cup {ExampleDomain}}
SelectTlds == {PyNone, PyStr(<<".">>), PyStr(<<" ", ".", "UK">>), PyStr(<<"info">>)}

\* Arguments of register_tld: suffixes, and overrides that give the field
\* domain_name no layer, an extension or a replacement.
RegisterTlds == {PyStr(<<>>), PyStr(<<".">>), PyStr(<<"UK">>), PyStr(<<"co", ".", "uk">>)}
RegisterOverrides ==
    { <<>>,
      [domain_name |-> [extend_patterns |-> <<"q">>]],
      [domain_name |-> [patterns |-> <<"r">>]] }

\* The base fields of a new registry.
DefaultBase == [domain_name |-> <<"p">>]

\* Hints, domains and texts of the calls that follow the registry.
RegistryTlds ==
    TldHints \cup {PyStr(<<"co", ".", "uk">>), PyStr(<<".", " ", "uk">>)}
RegistryDomains ==
    {PyNone, PyStr(<<"x", ".", "uk">>), PyStr(<<"a", ".", "co", ".", "uk">>),
     PyStr(<<"co", ".", "uk">>)}
RegistryTexts == {<<"Domain Name: X.INFO", "\n">>, <<"WHOIS LIMIT EXCEEDED">>}

\* Arguments of the registry's own operations.
Patterns == {"p", "q"}
BaseFields == {"domain_name"}
ExtendFields == BaseFields \cup {"missing"}
BasePatterns == BoundedSeq(Patterns, MaxPatterns - 1)
Layers ==
    { [patterns |-> <<"q">>],
      [prepend_patterns |-> <<"q", "p">>],
      [extend_patterns |-> <<"p", "q">>],
      [prepend_patterns |-> <<"q">>, extend_patterns |-> <<"q">>] }
FactoryOverrides == {<<>>} \cup {[domain_name |-> layer] : layer \in Layers}
FactoryTlds == {PyStr(<<>>), PyStr(<<".", "UK">>)}

RawAlphabet == {"\n", "WHOIS LIMIT EXCEEDED", "whois limit exceeded", "Domain Name: X.INFO"}
RawTexts == BoundedSeq(RawAlphabet, MaxRawLen) \cup WHOIS_RATE_LIMIT_MESSAGES
BatchTexts ==
    { <<"WHOIS LIMIT EXCEEDED">>,
      <<"Domain Name: old.example", "\n", "Domain Name: X.INFO">> }

\* Field mappings the engine may return: none, a full one, one whose domain
\* is the empty string.
EmptyMap == <<>>
FullMap ==
    [k \in SchemaKeys |->
        CASE k = "domain_name" -> PyStr(<<"X", ".", "INFO">>)
          [] k = "status" -> PyList(<<PyStr(<<"OK">>), PyStr(<<>>), PyStr(<<"ok">>)>>)
          [] k = "name_servers" -> PyList(<<PyStr(<<"NS1">>), PyStr(<<"ns1">>)>>)
          [] k = "creation_date" -> PyStr(<<"2020-01-01", "T00:00:00Z">>)
          [] k = "updated_date" -> PyStr(<<"2020-01-01", " ", "(", "JST", ")">>)
          [] k = "expiration_date" -> PyStr(<<"Mystery", " ", "(", "JST", ")">>)
          [] OTHER -> PyStr(<<"X">>)]
EmptyDomainMap == [domain_name |-> PyStr(<<>>), registrar |-> PyStr(<<"X">>)]
EngineMaps == {EmptyMap, FullMap, EmptyDomainMap}
BatchMaps == {EmptyMap, FullMap}

\* The batches of parse_chunks: the above, and one of MaxBatch + 1 payloads.
ChunkBatches ==
    BoundedSeq(BatchTexts, MaxBatch)
    \cup {[i \in 1..(MaxBatch + 1) |-> <<"Domain Name: X.INFO", "\n">>]}

\* Mappings handed to build_whois_record directly: the above, the full one
\* with one key missing, with one key of the wrong shape, with a None in a
\* list, and with a key outside the schema.
WrongShape(k) == IF k \in ListKeys THEN PyStr(<<"X">>) ELSE PyList(<<PyStr(<<"X">>)>>)
Without(m, k) == [x \in DOMAIN m \ {k} |-> m[x]]
With(m, k, value) == [x \in DOMAIN m \cup {k} |-> IF x = k THEN value ELSE m[x]]
BuildMaps ==
    EngineMaps
    \cup {Without(FullMap, k) : k \in SchemaKeys}
    \cup {With(FullMap, k, WrongShape(k)) : k \in SchemaKeys}
    \cup {With(FullMap, k, PyNone) : k \in SchemaKeys}
    \cup {With(FullMap, "status", PyList(<<PyStr(<<"ok">>), PyNone>>)),
          With(FullMap, "registrar_id", PyInt(292)),
          With(FullMap, "unknown_key", PyStr(<<"X">>)),
          With(EmptyMap, "unknown_key", PyNone)}

\* The status and name-server lists handed to build_whois_record: every list
\* of up to MaxListLen entries, among them the empty string and entries that
\* differ in case only.
ListEntries == {PyStr(<<"OK">>), PyStr(<<"Ok">>), PyStr(<<"ok">>), PyStr(<<"NS1">>), PyStr(<<>>)}
ListMaps ==
    {With(FullMap, k, PyList(l)) : k \in ListKeys, l \in BoundedSeq(ListEntries, MaxListLen)}

\* Date strings: a body, and after it an annotation in parentheses, with or
\* without blanks around the whole.
DateBodies == {<<>>, <<"2020-01-01">>, <<"2020-01-01", "T00:00:00Z">>, <<"Mystery">>}
TzAlphabet == {"+", "09", "00", ":"}
TzTexts ==
    BoundedSeq(TzAlphabet, MaxTzLen)
    \cup {<<"JST">>, <<"jst">>, <<"Utc">>, <<"gmt">>, <<"xyz">>, <<" ", "JST">>,
          <<"+", "9">>, <<"-", "09", "00">>, <<"-", "00", ":", "00">>,
          <<"+", "9", "9", "00">>, <<"+", "00", "6", "0">>, <<"+", "2", "4", "00">>,
          <<"+", "2", "3", ":", "5", "9">>, <<"(", "JST">>}
Annotated(body, tz) ==
    (IF body = <<>> THEN <<>> ELSE body \o <<" ">>) \o <<"(">> \o tz \o <<")">>
DateExamples ==
    { <<>>, <<" ">>, <<" ", "\n">>, <<" ", "Mystery", " ">>,
      <<"Mystery", " ", ".", "x">>, <<"2020-01-01", " ", ".">>,
      <<"2020.", " ", "01.", " ", "01.">>,
      <<"2020-01-01", " ", "00:00:00">>,
      <<"2020/01/01", " ", "00:00:00", " ", "(", "xyz", ")", " ", "(", "JST", ")">>,
      <<"2020-01-01", " ", "(", "+", ")", "(", "JST", ")">>,
      <<"2020-01-01", " ", "(", "JST", ")", " ", "x">>,
      <<"(", ")">>, <<"Mystery", " ", "(", ")">> }
DateStrings ==
    DateBodies \cup DateExamples
    \cup {Annotated(body, tz) : body \in DateBodies, tz \in TzTexts}
    \cup {<<" ">> \o Annotated(body, tz) \o <<" ">> : body \in DateBodies, tz \in TzTexts}

\* Date fields handed to build_whois_record.
DateKeys == {"creation_date", "updated_date", "expiration_date"}
DateFieldTexts ==
    { <<>>, <<" ">>, <<"Mystery", " ", "(", "JST", ")">>, <<"(", "JST", ")">>,
      <<" ", "Mystery", " ", ".", "X">>, <<"2020-01-01", " ", "(", "xyz", ")">>,
      <<"2020-01-01", "T00:00:00Z", " ", "(", "xyz", ")">>,
      <<"2020-01-01", " ", "(", "+", "09", "00", ")">> }
DateMaps == {With(FullMap, k, PyStr(d)) : k \in DateKeys, d \in DateFieldTexts}

\* The date_parser keyword of a call: absent, or a callable that returns a
\* timestamp, raises ValueError, or raises RuntimeError.
DateParsers == {"absent", "returns", "ValueError", "RuntimeError"}

\* The calls of build_whois_record: any raw text with the mappings of
\* BuildMaps, and one raw text with the list and date mappings and with a
\* date_parser keyword.
BuildCalls ==
    (RawTexts \X BuildMaps \X {"absent"})
    \cup ({<<"Domain Name: X.INFO", "\n">>} \X (ListMaps \cup DateMaps) \X {"absent"})
    \cup ({<<"Domain Name: X.INFO", "\n">>} \X {EmptyMap, FullMap} \X DateParsers)

\* Texts handed to normalize_raw_text: every text of up to MaxNormLen
\* symbols over a bare label, a value, a blank, a comment marker, a domain
\* line and the newline; and texts with contacts defined as separate blocks.
NormAlphabet == {"\n", "Domain Name:", "v", " ", "# c", "Domain Name: old.example"}
AfnicReferences ==
    <<"holder-c:", " ", "AA", "\n", "admin-c:", " ", "BB", "\n", "tech-c:", " ", "BB", "\n">>
AfnicOrganization ==
    <<"nic-hdl:", " ", "AA", "\n", "type:", " ", "ORGANIZATION", "\n",
      "contact:", " ", "N", "\n", "e-mail:", " ", "E", "\n">>
AfnicPerson ==
    <<"nic-hdl:", " ", "BB", "\n", "type:", " ", "PERSON", "\n",
      "contact:", "\n", " ", "M", "\n", "phone:", " ", "P">>
AfnicTexts ==
    { <<"Domain Name: X.INFO", "\n">> \o AfnicOrganization \o <<"\n">> \o AfnicPerson
          \o <<"\n", "\n">> \o AfnicReferences,
      <<"# c", "\n">> \o AfnicReferences \o <<"\n">> \o AfnicOrganization,
      <<"# c", "\n">> \o AfnicReferences \o <<"\n">> \o AfnicPerson,
      AfnicReferences,
      AfnicOrganization \o <<"\n">> \o AfnicPerson,
      AfnicReferences \o AfnicOrganization \o <<"Domain Name: X.INFO">>,
      <<"holder-c:", " ", "AA", "\n", "nic-hdl:", " ", "AA", "\n", "contact:", " ", "N">>,
      <<"Domain Name: old.example", "\n", "# c", "\n", "Domain Name:", "\n",
        " ", "X", ".", "INFO", "\n">> }
NormTexts == BoundedSeq(NormAlphabet, MaxNormLen) \cup AfnicTexts

Booleans == {TRUE, FALSE}

(***************************************************************************)
(* The state machine.  parsers is the key set of WhoisParser._parsers.     *)
(* A call is made when the facade is idle; call and ret record its         *)
(* arguments (with the cache it found) and its outcome until the caller    *)
(* has taken them.  The value parse_chunks returns is an iterator over the *)
(* chunks in ret.chunks: yielded counts the chunks the caller has drawn    *)
(* from it.  registry_base and registry_overrides are the base fields and  *)
(* the stored overrides of the facade's registry, rulesets maps every key  *)
(* of _parsers to the ruleset its parser was compiled from.  Spec follows  *)
(* the facade with the registrations made at construction; RegistrySpec    *)
(* follows it through later registrations; FactorySpec follows the         *)
(* registry used on its own.                                               *)
(***************************************************************************)
Call(op, raws, domain, tld, lowercase, to_records, chunk_size, engine_out) ==
    [op |-> op, raws |-> raws, domain |-> domain, tld |-> tld, lowercase |-> lowercase,
     to_records |-> to_records, chunk_size |-> chunk_size, engine_out |-> engine_out,
     cache |-> {}, date_parser |-> "absent"]

NoCall == Call("none", <<>>, PyNone, PyNone, FALSE, FALSE, 0, <<>>)

Init ==
    /\ registry_base = DefaultBase
    /\ \E pre \in SUBSET PreloadTlds, extra \in SUBSET ExtraTlds :
          /\ parsers = construct(pre, extra)
          /\ registry_overrides = constructed_overrides(extra)
          /\ rulesets = Compiled(<<>>, construct(pre, extra), DefaultBase,
                                 constructed_overrides(extra))
    /\ pc = "idle"
    /\ call = NoCall
    /\ ret = NoOutcome
    /\ yielded = 0

Finish(op_call, result) ==
    /\ parsers' = result.cache
    /\ call' = [op_call EXCEPT !.cache = parsers]
    /\ ret' = result.out
    /\ pc' = "done"
    /\ yielded' = 0
    /\ rulesets' = Compiled(rulesets, result.cache, registry_base, registry_overrides)
    /\ UNCHANGED <<registry_base, registry_overrides>>

SelectTld ==
    /\ pc = "idle"
    /\ \E tld \in SelectTlds, domain \in SelectDomains :
          Finish(Call("_select_tld", <<>>, domain, tld, FALSE, FALSE, 0, <<>>),
                 [cache |-> parsers,
                  out |-> Outcome("ok", <<>>, <<>>, <<>>, _select_tld(parsers, tld, domain),
                                  NoParser, <<>>, <<>>)])

Parse ==
    /\ pc = "idle"
    /\ \E raw \in RawTexts, domain \in DomainHints, tld \in TldHints, out \in EngineMaps :
          Finish(Call("parse", <<raw>>, domain, tld, FALSE, FALSE, 0, <<out>>),
                 parse(parsers, raw, domain, tld, out))

ParseRecord ==
    /\ pc = "idle"
    /\ \E raw \in RawTexts, domain \in DomainHints, tld \in TldHints,
          lowercase \in Booleans, out \in EngineMaps :
          Finish(Call("parse_record", <<raw>>, domain, tld, lowercase, TRUE, 0, <<out>>),
                 parse_record(parsers, raw, domain, tld, lowercase, out))

ParseMany ==
    /\ pc = "idle"
    /\ \E raws \in BoundedSeq(BatchTexts, MaxBatch), domain \in DomainHints,
          tld \in TldHints, to_records \in Booleans, lowercase \in Booleans :
          \E outs \in BoundedSeq(BatchMaps, Len(raws) + 1) :
             Finish(Call("parse_many", raws, domain, tld, lowercase, to_records, 0, outs),
                    parse_many(parsers, raws, domain, tld, to_records, lowercase, outs))

ParseChunks ==
    /\ pc = "idle"
    /\ \E raws \in ChunkBatches, domain \in DomainHints,
          tld \in TldHints, chunk_size \in 1..MaxChunk :
          \E outs \in BoundedSeq(BatchMaps, Len(raws) + 1) :
             Finish(Call("parse_chunks", raws, domain, tld, FALSE, FALSE, chunk_size, outs),
                    parse_chunks(parsers, raws, domain, tld, chunk_size, outs))

BuildWhoisRecord ==
    /\ pc = "idle"
    /\ \E c \in BuildCalls, lowercase \in Booleans :
          Finish([Call("build_whois_record", <<c[1]>>, PyNone, PyNone, lowercase, TRUE, 0,
                       <<c[2]>>) EXCEPT !.date_parser = c[3]],
                 [cache |-> parsers,
                  out |-> LET built == call_build_whois_record(c[1], c[2], lowercase, c[3])
                          IN  Outcome(built.status, built.records, <<>>, <<>>, <<>>,
                                      NoParser, <<>>, <<>>)])

\* parse_datetime(date_string): the value returned is left in ret.mappings.
ParseDatetime ==
    /\ pc = "idle"
    /\ \E date_string \in DateStrings :
          Finish(Call("parse_datetime", <<date_string>>, PyNone, PyNone, FALSE, FALSE, 0, <<>>),
                 [cache |-> parsers,
                  out |-> LET value == parse_datetime(date_string)
                          IN  Outcome(IF value.t = "raise" THEN value.v[1] ELSE "ok",
                                      <<>>, <<value>>, <<>>, <<>>, NoParser, <<>>, <<>>)])

\* normalize_raw_text(text): the value returned is left in ret.normalized.
Normalize ==
    /\ pc = "idle"
    /\ \E text \in NormTexts :
          Finish(Call("normalize_raw_text", <<text>>, PyNone, PyNone, FALSE, FALSE, 0, <<>>),
                 [cache |-> parsers,
                  out |-> Outcome("ok", <<>>, <<>>, <<>>, <<>>, NoParser,
                                  <<normalize_raw_text(text)>>, <<>>)])

(***************************************************************************)
(* The registry followed through registrations and parse calls: the same   *)
(* facade, its calls drawn from the hints, domains and texts above.        *)
(***************************************************************************)
RegisterCall(tld, overrides, replace, preload) ==
    [op |-> "register_tld", raws |-> <<>>, domain |-> PyNone, tld |-> tld,
     lowercase |-> FALSE, to_records |-> FALSE, chunk_size |-> 0, engine_out |-> <<>>,
     cache |-> parsers, date_parser |-> "absent",
     overrides |-> overrides, replace |-> replace, preload |-> preload]

RegisterTld ==
    /\ pc = "idle"
    /\ \E tld \in RegisterTlds, overrides \in RegisterOverrides,
          replace \in Booleans, preload \in Booleans :
          LET Registered(result) ==
                  /\ rulesets' = result.rulesets
                  /\ parsers' = DOMAIN result.rulesets
                  /\ registry_overrides' = result.tld_overrides
                  /\ ret' = result.out
          IN  /\ Registered(register_tld(rulesets, registry_base, registry_overrides,
                                         tld, overrides, replace, preload))
              /\ call' = RegisterCall(tld, overrides, replace, preload)
    /\ pc' = "done"
    /\ yielded' = 0
    /\ UNCHANGED registry_base

RegistrySelectTld ==
    /\ pc = "idle"
    /\ \E tld \in RegistryTlds, domain \in RegistryDomains :
          Finish(Call("_select_tld", <<>>, domain, tld, FALSE, FALSE, 0, <<>>),
                 [cache |-> parsers,
                  out |-> Outcome("ok", <<>>, <<>>, <<>>, _select_tld(parsers, tld, domain),
                                  NoParser, <<>>, <<>>)])

\* WhoisParser.supported_tlds: the value returned is left in ret.mappings.
SupportedTlds ==
    /\ pc = "idle"
    /\ Finish(Call("supported_tlds", <<>>, PyNone, PyNone, FALSE, FALSE, 0, <<>>),
              [cache |-> parsers,
               out |-> Outcome("ok", <<>>, supported_tlds(parsers), <<>>, <<>>,
                               NoParser, <<>>, <<>>)])

RegistryParse ==
    /\ pc = "idle"
    /\ \E raw \in RegistryTexts, domain \in RegistryDomains, tld \in RegistryTlds :
          Finish(Call("parse", <<raw>>, domain, tld, FALSE, FALSE, 0, <<EmptyMap>>),
                 parse(parsers, raw, domain, tld, EmptyMap))

RegistryParseRecord ==
    /\ pc = "idle"
    /\ \E raw \in RegistryTexts, domain \in RegistryDomains, tld \in RegistryTlds :
          Finish(Call("parse_record", <<raw>>, domain, tld, FALSE, TRUE, 0, <<EmptyMap>>),
                 parse_record(parsers, raw, domain, tld, FALSE, EmptyMap))

RegistryParseMany ==
    /\ pc = "idle"
    /\ \E raws \in BoundedSeq(RegistryTexts, 1), domain \in RegistryDomains,
          tld \in RegistryTlds :
          Finish(Call("parse_many", raws, domain, tld, FALSE, FALSE, 0,
                      [i \in DOMAIN raws |-> EmptyMap]),
                 parse_many(parsers, raws, domain, tld, FALSE, FALSE,
                            [i \in DOMAIN raws |-> EmptyMap]))

RegistryParseChunks ==
    /\ pc = "idle"
    /\ \E raws \in BoundedSeq(RegistryTexts, 1), domain \in RegistryDomains,
          tld \in RegistryTlds :
          Finish(Call("parse_chunks", raws, domain, tld, FALSE, FALSE, 1,
                      [i \in DOMAIN raws |-> EmptyMap]),
                 parse_chunks(parsers, raws, domain, tld, 1,
                              [i \in DOMAIN raws |-> EmptyMap]))

(***************************************************************************)
(* The registry on its own: register_base, extend_base, register_suffix    *)
(* and compile, called on the registry directly.  A base pattern list is   *)
(* kept to MaxPatterns patterns.                                           *)
(***************************************************************************)
FactoryCall(op, field, tld, patterns, overrides, replace) ==
    [op |-> op, field |-> field, tld |-> tld, patterns |-> patterns,
     overrides |-> overrides, replace |-> replace]

FactoryInit ==
    /\ registry_base = DefaultBase
    /\ registry_overrides = <<>>
    /\ rulesets = <<>>
    /\ parsers = {}
    /\ pc = "idle"
    /\ call = NoCall
    /\ ret = NoOutcome
    /\ yielded = 0

FactoryFinish(factory_call, status, mappings) ==
    /\ call' = factory_call
    /\ ret' = Outcome(status, <<>>, mappings, <<>>, <<>>, NoParser, <<>>, <<>>)
    /\ pc' = "done"
    /\ UNCHANGED <<parsers, yielded, rulesets>>

RegisterBase ==
    /\ pc = "idle"
    /\ \E field \in BaseFields, patterns \in BasePatterns :
          /\ registry_base' = register_base_field(registry_base, field, patterns)
          /\ FactoryFinish(FactoryCall("register_base_field", field, PyNone, patterns,
                                       <<>>, FALSE), "ok", <<>>)
    /\ UNCHANGED registry_overrides

ExtendBase ==
    /\ pc = "idle"
    /\ \E field \in ExtendFields, patch \in Layers :
          LET Extended(result) ==
                  /\ \A f \in DOMAIN result.base_fields :
                        Len(result.base_fields[f]) <= MaxPatterns
                  /\ registry_base' = result.base_fields
                  /\ FactoryFinish(FactoryCall("extend_base_field", field, PyNone, <<>>,
                                               patch, FALSE), result.status, <<>>)
          IN  Extended(extend_base_field(registry_base, field, patch))
    /\ UNCHANGED registry_overrides

RegisterSuffix ==
    /\ pc = "idle"
    /\ \E tld \in FactoryTlds, overrides \in FactoryOverrides, replace \in Booleans :
          LET Stored(result) ==
                  /\ registry_overrides' = result.tld_overrides
                  /\ FactoryFinish(FactoryCall("register_tld", "", tld, <<>>, overrides,
                                               replace), result.status, <<>>)
          IN  Stored(factory_register_tld(registry_overrides, tld, overrides, replace))
    /\ UNCHANGED registry_base

\* build_structly_config_for_tld(tld): the ruleset is left in ret.mappings.
Compile ==
    /\ pc = "idle"
    /\ \E tld \in FactoryTlds :
          FactoryFinish(FactoryCall("build_structly_config_for_tld", "", tld, <<>>, <<>>,
                                    FALSE), "ok",
                        <<build_structly_config_for_tld(registry_base, registry_overrides,
                                                        _normalise_tld(tld))>>)
    /\ UNCHANGED <<registry_base, registry_overrides>>

\* record.to_dict(include_raw_text=...) on the record build_whois_record
\* returned (or on one serialized before): the record after the call stays
\* in ret.records, the value returned is left in ret.mappings, the flag in
\* call.to_records.
ToDict ==
    /\ pc = "done" /\ call.op \in {"build_whois_record", "to_dict"}
    /\ ret.status = "ok"
    /\ \E include_raw_text \in Booleans :
          /\ call' = [call EXCEPT !.op = "to_dict", !.to_records = include_raw_text]
          /\ ret' = [ret EXCEPT
                       !.records = <<to_dict(ret.records[1], include_raw_text).self>>,
                       !.mappings = <<to_dict(ret.records[1], include_raw_text).data>>]
    /\ UNCHANGED <<parsers, pc, yielded, registry_base, registry_overrides, rulesets>>

\* next() on the iterator parse_chunks returned: the next chunk is drawn.
\* The iterator has no other operation.
NextChunk ==
    /\ pc = "done" /\ call.op = "parse_chunks"
    /\ yielded < Len(ret.chunks)
    /\ yielded' = yielded + 1
    /\ UNCHANGED <<parsers, pc, call, ret, registry_base, registry_overrides, rulesets>>

\* The caller takes the outcome; the facade is idle again.
Return ==
    /\ pc = "done"
    /\ pc' = "idle"
    /\ call' = NoCall
    /\ ret' = NoOutcome
    /\ yielded' = 0
    /\ UNCHANGED <<parsers, registry_base, registry_overrides, rulesets>>

Next ==
    \/ SelectTld
    \/ Parse
    \/ ParseRecord
    \/ ParseMany
    \/ ParseChunks
    \/ BuildWhoisRecord
    \/ ParseDatetime
    \/ Normalize
    \/ ToDict
    \/ NextChunk
    \/ Return

Spec == Init /\ [][Next]_vars

RegistryNext ==
    \/ RegisterTld
    \/ RegistrySelectTld
    \/ SupportedTlds
    \/ RegistryParse
    \/ RegistryParseRecord
    \/ RegistryParseMany
    \/ RegistryParseChunks
    \/ NextChunk
    \/ Return

RegistrySpec == Init /\ [][RegistryNext]_vars

FactoryNext ==
    \/ RegisterBase
    \/ ExtendBase
    \/ RegisterSuffix
    \/ Compile
    \/ Return

FactorySpec == FactoryInit /\ [][FactoryNext]_vars

(***************************************************************************)
(* Vocabulary of the properties.                                           *)
(***************************************************************************)
Done(op) == pc = "done" /\ call.op = op

IsBanner(text) == \E b \in WHOIS_RATE_LIMIT_MESSAGES : Strip(text) = b

ContactEmpty(c) ==
    c.name = PyNone /\ c.email = PyNone /\ c.organization = PyNone /\ c.telephone = PyNone

StructuredEmpty(r) ==
    /\ r.domain = PyNone /\ r.registrar = PyNone /\ r.registrar_id = PyNone
    /\ r.registrar_url = PyNone /\ r.dnssec = PyNone
    /\ r.registered_at = PyNone /\ r.updated_at = PyNone /\ r.expires_at = PyNone
    /\ r.statuses = <<>> /\ r.name_servers = <<>>
    /\ ContactEmpty(r.registrant) /\ ContactEmpty(r.admin) /\ ContactEmpty(r.tech)
    /\ r.abuse.email = PyNone /\ r.abuse.telephone = PyNone

\* C1: parse_record of a text that is a rate-limit banner once trimmed, with
\* any domain, tld, lowercase and whatever the engine would return, gives one
\* record with is_rate_limited set and every structured field empty, and
\* neither the normalizer nor the engine is used.
C1_RateLimitPriority ==
    (Done("parse_record") /\ IsBanner(call.raws[1])) =>
        /\ ret.status = "ok"
        /\ Len(ret.records) = 1
        /\ ret.records[1].is_rate_limited
        /\ ret.records[1].raw_text = call.raws[1]
        /\ StructuredEmpty(ret.records[1])
        /\ ret.normalized = <<>>
        /\ ret.engine_in = <<>>

C1_Witness ==
    /\ Done("parse_record")
    /\ call.raws[1] = <<"\n", "WHOIS LIMIT EXCEEDED">>
    /\ Truthy(call.domain) /\ Truthy(call.tld) /\ call.lowercase
    /\ call.engine_out[1] = FullMap
    /\ ret.records[1].is_rate_limited

\* C2: in every record any operation produces, is_rate_limited implies that
\* every other structured field is empty or absent.
C2_RateLimitedImpliesEmpty ==
    pc = "done" =>
        \A i \in DOMAIN ret.records :
            ret.records[i].is_rate_limited => StructuredEmpty(ret.records[i])

\* C3: parse_many with to_records: when the engine returns a number of
\* mappings different from the number of payloads the call fails; a call
\* that returns never returns fewer or more records than payloads.
C3_MismatchIsFatal ==
    (Done("parse_many") /\ call.to_records) =>
        /\ Len(call.engine_out) # Len(call.raws) => ret.status # "ok"
        /\ ret.status = "ok" => Len(ret.records) = Len(call.raws)

\* C4: parse_many with an engine that returns one mapping per payload, in
\* order: the engine was given the normalized payloads in order; without
\* to_records the N mappings are returned as they are; with to_records N
\* records are returned, record i with raw_text payload i and the fields of
\* the engine's mapping i.
C4_OrderPreservation ==
    (Done("parse_many") /\ Len(call.engine_out) = Len(call.raws)) =>
        /\ ret.status = "ok"
        /\ Len(ret.engine_in) = Len(call.raws)
        /\ \A i \in DOMAIN call.raws : ret.engine_in[i] = normalize_raw_text(call.raws[i])
        /\ ~call.to_records => ret.mappings = call.engine_out
        /\ call.to_records =>
              /\ Len(ret.records) = Len(call.raws)
              /\ \A i \in DOMAIN call.raws :
                    /\ ret.records[i].raw_text = call.raws[i]
                    /\ ret.records[i].domain =
                          _lower_if_needed(Field(call.engine_out[i], "domain_name"),
                                           call.lowercase)
                    /\ ret.records[i] =
                          build_whois_record(call.raws[i], call.engine_out[i],
                                             call.lowercase).records[1]

C4_Witness ==
    /\ Done("parse_many") /\ call.to_records
    /\ Len(call.raws) = 2 /\ call.raws[1] # call.raws[2]
    /\ call.engine_out = <<EmptyMap, FullMap>>
    /\ Len(ret.records) = 2
    /\ ret.records[1].domain = PyNone
    /\ ret.records[2].domain = PyStr(<<"X", ".", "INFO">>)

(***************************************************************************)
(* Suffix resolution.                                                      *)
(***************************************************************************)
NoExplicit == _normalise_tld(call.tld) = <<>>

CallLabels == _split_domain(call.domain)

Registered(labels, start) == Candidate(labels, start) \in call.cache

\* C5: with no explicit suffix, the candidates labels[i:] of the trimmed,
\* lowercased domain are tried from the most specific on and the first one
\* with a compiled ruleset is the result: no label is empty or contains a
\* dot or an upper-case symbol, and a.b.co.uk with uk and co.uk registered
\* resolves to co.uk.
C5_MostSpecificSuffixWins ==
    (Done("_select_tld") /\ NoExplicit) =>
        /\ \A i \in DOMAIN CallLabels :
              /\ CallLabels[i] # <<>>
              /\ \A j \in DOMAIN CallLabels[i] : CallLabels[i][j] \notin {".", "UK"}
        /\ \A start \in DOMAIN CallLabels :
              ( /\ Registered(CallLabels, start)
                /\ \A earlier \in 1..(start - 1) : ~Registered(CallLabels, earlier) )
              => ret.tld = Candidate(CallLabels, start)
        /\ (call.domain = PyStr(ExampleDomain)
              /\ {<<"uk">>, <<"co", ".", "uk">>} \subseteq call.cache)
              => ret.tld = <<"co", ".", "uk">>

C5_Witness ==
    /\ Done("_select_tld") /\ call.tld = PyNone
    /\ call.domain = PyStr(ExampleDomain)
    /\ call.cache = {<<"uk">>, <<"co", ".", "uk">>}
    /\ ret.tld = <<"co", ".", "uk">>

\* C6: an explicit suffix that is not empty once normalised (trimmed, leading
\* dots removed, lowercased) is the result of the resolution, whatever the
\* domain is and whether or not a ruleset is compiled for it.
C6_ExplicitSuffixWins ==
    ( /\ pc = "done"
      /\ call.op \in {"_select_tld", "parse", "parse_many", "parse_chunks"}
      /\ ~NoExplicit ) =>
        /\ ret.tld = _normalise_tld(call.tld)
        /\ call.tld = PyStr(<<" ", ".", "UK">>) => ret.tld = <<"uk">>
        /\ call.tld = PyStr(<<"info">>) => ret.tld = <<"info">>

C6_Witness ==
    /\ Done("_select_tld")
    /\ call.tld = PyStr(<<"info">>)
    /\ call.domain = PyStr(ExampleDomain)
    /\ call.cache = {<<"uk">>, <<"co", ".", "uk">>}
    /\ ret.tld = <<"info">>

\* C7: with no usable explicit suffix, a domain none of whose candidates has
\* a compiled ruleset resolves to its last label, and an absent or empty
\* domain, or one without labels, to the empty suffix; a parse that resolves
\* the empty suffix uses the default parser and leaves the cache as it was.
C7_ResolutionFallback ==
    /\ (Done("_select_tld") /\ NoExplicit
          /\ \A start \in DOMAIN CallLabels : ~Registered(CallLabels, start)) =>
            IF CallLabels = <<>> THEN ret.tld = <<>>
            ELSE ret.tld = CallLabels[Len(CallLabels)]
    /\ (pc = "done" /\ call.op \in {"parse", "parse_many", "parse_chunks"}) =>
            /\ (NoExplicit /\ CallLabels = <<>>) => ret.tld = <<>>
            /\ ret.tld = <<>> => (ret.parser = DefaultParser /\ parsers = call.cache)
            /\ ret.tld # <<>> => ret.parser = SuffixParser(ret.tld)

C7_Witness ==
    /\ Done("_select_tld") /\ call.tld = PyNone
    /\ call.domain = PyStr(<<"co", ".", "UK", ".">>)
    /\ call.cache = {}
    /\ ret.tld = <<"uk">>

(***************************************************************************)
(* The domain hint.                                                        *)
(***************************************************************************)
EngineDomain(i) == Field(call.engine_out[i], "domain_name")

\* The mappings a call returned, chunks flattened.
RECURSIVE Flatten(_)
Flatten(chunks) == IF chunks = <<>> THEN <<>> ELSE Head(chunks) \o Flatten(Tail(chunks))

ReturnedMappings == IF call.op = "parse_chunks" THEN Flatten(ret.chunks) ELSE ret.mappings

MappingCall ==
    /\ pc = "done" /\ ret.status = "ok"
    /\ \/ call.op \in {"parse", "parse_chunks"}
       \/ call.op = "parse_many" /\ ~call.to_records

RecordCall ==
    /\ pc = "done" /\ ret.status = "ok"
    /\ \/ call.op = "parse_record" /\ ~IsBanner(call.raws[1])
       \/ call.op = "parse_many" /\ call.to_records

\* C8: when the caller supplies a non-empty domain and the engine's mapping
\* for a payload has no domain or an empty one, the mapping or record that
\* is returned for it carries the supplied domain.
C8_DomainHintInjected ==
    Truthy(call.domain) =>
        /\ MappingCall =>
              \A i \in DOMAIN ReturnedMappings :
                  ~Truthy(EngineDomain(i)) =>
                      Field(ReturnedMappings[i], "domain_name") = call.domain
        /\ RecordCall =>
              \A i \in DOMAIN ret.records :
                  ~Truthy(EngineDomain(i)) =>
                      ret.records[i].domain = _lower_if_needed(call.domain, call.lowercase)

RecordField(r, key) ==
    CASE key = "domain_name" -> r.domain
      [] key = "registrar" -> r.registrar
      [] key = "registrar_id" -> r.registrar_id
      [] key = "registrar_url" -> r.registrar_url
      [] key = "creation_date" -> r.registered_at
      [] key = "updated_date" -> r.updated_at
      [] key = "expiration_date" -> r.expires_at
      [] key = "registrant_name" -> r.registrant.name
      [] key = "registrant_organization" -> r.registrant.organization
      [] key = "registrant_email" -> r.registrant.email
      [] key = "registrant_telephone" -> r.registrant.telephone
      [] key = "admin_name" -> r.admin.name
      [] key = "admin_organization" -> r.admin.organization
      [] key = "admin_email" -> r.admin.email
      [] key = "admin_telephone" -> r.admin.telephone
      [] key = "tech_name" -> r.tech.name
      [] key = "tech_organization" -> r.tech.organization
      [] key = "tech_email" -> r.tech.email
      [] key = "tech_telephone" -> r.tech.telephone
      [] key = "dnssec" -> r.dnssec
      [] key = "abuse_email" -> r.abuse.email
      [] key = "abuse_telephone" -> r.abuse.telephone
      [] key = "status" -> PyList(r.statuses)
      [] key = "name_servers" -> PyList(r.name_servers)

Absent(key) == IF key \in {"status", "name_servers"} THEN PyList(<<>>) ELSE PyNone

OutsideSchema(parsed) == \E k \in DOMAIN parsed : k \notin SchemaKeys

WrongShaped(parsed) ==
    \E k \in DOMAIN parsed \cap SchemaKeys :
        \/ parsed[k].t = "int"
        \/ k \in {"status", "name_servers"} /\ parsed[k].t = "str"
        \/ k \notin {"status", "name_servers"} /\ parsed[k].t = "list"
        \/ parsed[k].t = "list" /\ \E i \in DOMAIN parsed[k].v : parsed[k].v[i].t # "str"

\* C10: build_whois_record (called with its own parameters) of a mapping with a key outside the schema or a
\* value of the wrong shape fails with the invalid-payload error and gives
\* no record; of any other mapping it gives one record, in which every key
\* that is missing from the mapping is an absent field or an empty list.
C10_ClosedSchema ==
    (Done("build_whois_record") /\ call.date_parser = "absent") =>
        LET parsed == call.engine_out[1]
        IN  IF OutsideSchema(parsed) \/ WrongShaped(parsed)
            THEN ret.status = "ValueError" /\ ret.records = <<>>
            ELSE /\ ret.status = "ok"
                 /\ Len(ret.records) = 1
                 /\ \A k \in SchemaKeys \ DOMAIN parsed :
                       RecordField(ret.records[1], k) = Absent(k)

C10_Witness ==
    /\ Done("build_whois_record") /\ call.date_parser = "absent"
    /\ call.engine_out[1] = With(FullMap, "status", PyStr(<<"X">>))
    /\ ret.status = "ValueError"
    /\ ret.records = <<>>

(***************************************************************************)
(* The lists of a record.                                                  *)
(***************************************************************************)
\* A record was built from the mapping call.engine_out[1].
Built == Done("build_whois_record") /\ ret.status = "ok"

ListClean(l) ==
    /\ \A i \in DOMAIN l : l[i] # <<>>
    /\ \A i, j \in DOMAIN l : i < j => Lower(l[i]) # Lower(l[j])

\* C11: in every record that build_whois_record builds, whatever the lists
\* of the mapping and whatever lowercase, statuses and name_servers hold no
\* empty entry and no two entries that are equal once lowercased.
C11_ListsClean ==
    pc = "done" =>
        \A i \in DOMAIN ret.records :
            ListClean(ret.records[i].statuses) /\ ListClean(ret.records[i].name_servers)

C11_Witness ==
    /\ Built
    /\ ~call.lowercase
    /\ Field(call.engine_out[1], "status")
          = PyList(<<PyStr(<<>>), PyStr(<<"Ok">>), PyStr(<<"OK">>)>>)
    /\ ret.records[1].statuses = << <<"Ok">> >>

\* The positions of a list that are kept: truthy, and no truthy entry before
\* them is equal to them once lowercased.
Kept(input) ==
    {i \in DOMAIN input :
        /\ Truthy(input[i])
        /\ \A j \in 1..(i - 1) :
              ~(Truthy(input[j]) /\ Lower(input[j].v) = Lower(input[i].v))}

KthKept(input, k) ==
    CHOOSE i \in Kept(input) : Cardinality({j \in Kept(input) : j < i}) = k - 1

FirstOccurrences(values, lowercase) ==
    [k \in 1..Cardinality(Kept(values.v)) |->
        LET entry == values.v[KthKept(values.v, k)].v
        IN  IF lowercase THEN Lower(entry) ELSE entry]

\* C12: statuses and name_servers of a built record are the first occurrence
\* of each class of entries equal once lowercased, among the truthy entries
\* of the input list, in input order; each with the casing it had when
\* lowercase is false and lowercased when lowercase is true.
C12_FirstOccurrenceInOrder ==
    Built =>
        /\ ret.records[1].statuses
              = FirstOccurrences(Field(call.engine_out[1], "status"), call.lowercase)
        /\ ret.records[1].name_servers
              = FirstOccurrences(Field(call.engine_out[1], "name_servers"), call.lowercase)

C12_Witness ==
    /\ Built
    /\ ~call.lowercase
    /\ Field(call.engine_out[1], "name_servers")
          = PyList(<<PyStr(<<"ok">>), PyStr(<<"NS1">>), PyStr(<<"OK">>)>>)
    /\ ret.records[1].name_servers = << <<"ok">>, <<"NS1">> >>

(***************************************************************************)
(* The lowercase flag.                                                     *)
(***************************************************************************)
Folded(value, lowercase) ==
    IF value.t # "str" THEN value
    ELSE PyStr(IF lowercase THEN Lower(value.v) ELSE value.v)

\* C13: with lowercase, every string leaf of a built record is the lowercased
\* value of the mapping: the scalar fields, the leaves of the contacts and of
\* abuse, every entry of the two lists, every date that stayed a string;
\* timestamps are the same as without lowercase and raw_text is the text
\* given.  Without lowercase every string leaf has the casing of the mapping.
C13_LowercaseFoldsEveryLeaf ==
    Built =>
        LET r == ret.records[1]
            parsed == call.engine_out[1]
        IN  /\ r.raw_text = call.raws[1]
            /\ \A k \in ScalarKeys \ DateKeys :
                  RecordField(r, k) = Folded(Field(parsed, k), call.lowercase)
            /\ \A k \in DateKeys :
                  RecordField(r, k)
                     = Folded(_parse_date_field(Field(parsed, k), FALSE), call.lowercase)
            /\ \A k \in ListKeys :
                  \A i \in DOMAIN RecordField(r, k).v :
                     \E j \in DOMAIN Field(parsed, k).v :
                        RecordField(r, k).v[i]
                           = Folded(Field(parsed, k).v[j], call.lowercase).v

C13_Witness ==
    /\ Built
    /\ call.lowercase
    /\ call.raws[1] = <<"WHOIS LIMIT EXCEEDED", "Domain Name: X.INFO">>
    /\ call.engine_out[1] = FullMap
    /\ ret.records[1].raw_text = <<"WHOIS LIMIT EXCEEDED", "Domain Name: X.INFO">>
    /\ ret.records[1].domain = PyStr(<<"x", ".", "info">>)
    /\ ret.records[1].tech.telephone = PyStr(<<"x">>)
    /\ ret.records[1].statuses = << <<"ok">> >>
    /\ ret.records[1].expires_at = PyStr(<<"mystery">>)
    /\ ret.records[1].registered_at = Datetime("2020-01-01T00:00:00", Utc)

(***************************************************************************)
(* The date parser.                                                        *)
(***************************************************************************)
DateGiven == call.raws[1]
DateReturned == ret.mappings[1]

\* The annotation of the date string given and the text before it.
Annotation == _extract_trailing_timezone(Strip(DateGiven)).tz
BeforeAnnotation == _extract_trailing_timezone(Strip(DateGiven)).cleaned

\* The date string given, as it is, trimmed, and without its annotation.
GivenOrCleaned == {DateGiven, Strip(DateGiven), BeforeAnnotation}

\* C14: parse_datetime of a non-empty string that no format of the fast-path
\* table accepts returns that string, changed at most by the removal of the
\* trailing annotation in parentheses (and of the blanks around it), and
\* does not raise.
C14_DateFallbackSafety ==
    (/\ Done("parse_datetime")
     /\ DateGiven # <<>>
     /\ _try_fast_datetime_parse(BeforeAnnotation) = NoMatch
     /\ _try_fast_datetime_parse(RemoveSpaceDot(BeforeAnnotation)) = NoMatch) =>
        /\ ret.status = "ok"
        /\ DateReturned.t = "str"
        /\ DateReturned.v \in GivenOrCleaned

\* C15: parse_datetime returns a timestamp or a string for every string and
\* never raises; an empty or blank string is returned as it is.
C15_DateParserTotal ==
    Done("parse_datetime") =>
        /\ ret.status = "ok"
        /\ DateReturned.t \in {"str", "datetime"}
        /\ Strip(DateGiven) = <<>> => DateReturned = PyStr(DateGiven)

C15_Witness ==
    /\ Done("parse_datetime")
    /\ DateGiven = <<"2020-01-01", " ", "(", "+", "9", ")">>
    /\ DateReturned = Datetime("2020-01-01T00:00:00", Naive)

\* The offset an annotation stands for: a sign, HHMM or HH:MM below 24:00,
\* or one of UTC, GMT, JST in any case; Naive when it is neither.
AnnotationOffset(tz) ==
    LET c == Chars(tz)
        d == IF Len(c) = 5 THEN SubSeq(c, 2, 5)
             ELSE IF Len(c) = 6 /\ c[4] = ":" THEN <<c[2], c[3], c[5], c[6]>>
             ELSE <<>>
    IN  IF /\ d # <<>>
           /\ c[1] \in {"+", "-"}
           /\ \A i \in DOMAIN d : IsDigit(d[i])
           /\ DigitVal(d[1]) * 10 + DigitVal(d[2]) < 24
           /\ DigitVal(d[3]) * 10 + DigitVal(d[4]) < 60
        THEN IF d = <<"0", "0", "0", "0">> THEN Utc ELSE <<c[1], d[1], d[2], ":", d[3], d[4]>>
        ELSE IF Upper(c) = <<"J", "S", "T">> THEN Jst
        ELSE IF Upper(c) \in {<<"U", "T", "C">>, <<"G", "M", "T">>} THEN Utc
        ELSE Naive

Annotated_Timestamp ==
    /\ Done("parse_datetime")
    /\ DateReturned.t = "datetime"
    /\ Annotation # <<>>

\* C16: when parse_datetime returns a timestamp and the string had a trailing
\* annotation, the timestamp has the offset of an annotation +-HHMM or
\* +-HH:MM, the fixed offset of UTC, GMT or JST in any case, and no offset
\* at all (it is naive) when the annotation is none of these.
C16_TimezoneAnnotation ==
    Annotated_Timestamp => DateReturned.v[2] = AnnotationOffset(Annotation)

\* C16, amended: as above when the annotation resolves; when it does not,
\* the timestamp keeps the offset the format read from the string itself,
\* and is naive only if the string had none.
C16_TimezoneAnnotationAmended ==
    Annotated_Timestamp =>
        DateReturned.v[2]
           = IF AnnotationOffset(Annotation) # Naive THEN AnnotationOffset(Annotation)
             ELSE _try_fast_datetime_parse(RemoveSpaceDot(BeforeAnnotation)).v[2]

C16_Witness ==
    /\ Done("parse_datetime")
    /\ DateGiven = <<"2020-01-01", "T00:00:00Z", " ", "(", "+", "09", "00", ")">>
    /\ DateReturned = Datetime("2020-01-01T00:00:00", Jst)

\* C17: build_whois_record with a date_parser: when no format matches a date
\* and the date_parser raises ValueError, a record is built whose date field
\* is the cleaned string (lowercased with lowercase); when it raises another
\* error, that error leaves build_whois_record.
C17_FallbackDateParser ==
    (/\ Done("build_whois_record")
     /\ call.engine_out[1] = FullMap) =>
        /\ call.date_parser = "ValueError" =>
              /\ ret.status = "ok"
              /\ Len(ret.records) = 1
              /\ ret.records[1].expires_at
                    = PyStr(IF call.lowercase THEN <<"mystery">> ELSE <<"Mystery">>)
        /\ call.date_parser = "RuntimeError" => ret.status = "RuntimeError"

\* C18: every record build_whois_record builds has is_rate_limited exactly
\* when its raw_text, trimmed, is one of the banners; a text that holds a
\* banner among other text, or a banner in another case, is not.
C18_RateLimitedIffBanner ==
    Built =>
        /\ ret.records[1].raw_text = call.raws[1]
        /\ ret.records[1].is_rate_limited <=> IsBanner(call.raws[1])
        /\ call.raws[1] \in { <<"whois limit exceeded">>,
                              <<"WHOIS LIMIT EXCEEDED", "Domain Name: X.INFO">>,
                              <<"WHOIS LIMIT EXCEEDED", "WHOIS LIMIT EXCEEDED">> }
              => ~ret.records[1].is_rate_limited

C18_Witness ==
    /\ Built
    /\ call.raws[1] = <<"WHOIS LIMIT EXCEEDED", "Domain Name: X.INFO">>
    /\ call.engine_out[1] = FullMap
    /\ ~ret.records[1].is_rate_limited

(***************************************************************************)
(* The normalizer.                                                         *)
(***************************************************************************)
TextGiven == call.raws[1]
TextReturned == ret.normalized[1]

\* C19: normalizing a normalized text gives the same text, for every text:
\* with wrapped fields, with several response blocks, with contacts defined
\* as separate blocks whose label lines are appended.
C19_NormalizeIdempotent ==
    Done("normalize_raw_text") => normalize_raw_text(TextReturned) = TextReturned

\* C20: the normalized text of a non-empty text ends with a newline, and the
\* normalized text of the empty text is empty.
C20_NewlineTerminated ==
    Done("normalize_raw_text") =>
        IF TextGiven = <<>> THEN TextReturned = <<>>
        ELSE TextReturned # <<>> /\ TextReturned[Len(TextReturned)] = "\n"

C20_Witness ==
    /\ Done("normalize_raw_text")
    /\ TextGiven = <<"holder-c:", " ", "AA", "\n", "nic-hdl:", " ", "AA", "\n", "contact:", " ", "N">>
    /\ TextReturned = TextGiven \o <<"\n", "Registrant", " ", "Name:", " ", "N", "\n">>

\* The lines that enter the isolation step: the text given, split, with its
\* wrapped fields collapsed; the positions of the domain-identifying lines
\* among them; the lines of the text returned.
CollapsedLines == _collapse_wrapped_fields(SplitLines(TextGiven, <<>>))
DomainLinesAt == {i \in DOMAIN CollapsedLines : IsDomainLine(CollapsedLines[i])}
LastDomainAt == CHOOSE i \in DomainLinesAt : \A j \in DomainLinesAt : j <= i
ReturnedLines == SplitLines(TextReturned, <<>>)
LatestBlock == SubSeq(CollapsedLines, LastDomainAt, Len(CollapsedLines))

CeilDiv(n, k) == (n + k - 1) \div k

\* The chunk the caller drew last.
DrawnChunk == ret.chunks[yielded]

\* C25: parse_chunks over N payloads with chunk size k, the engine returning
\* one mapping per payload: the iterator holds ceil(N/k) chunks, every one
\* but the last of k mappings, the last of 1 to k, N mappings in all, the
\* j-th of them the engine's mapping for the j-th normalized payload; the
\* caller draws the chunks one after the other, each once, and no step
\* takes the iterator back.
C25_ChunkShape ==
    (Done("parse_chunks") /\ Len(call.engine_out) = Len(call.raws)) =>
        /\ Len(ret.chunks) = CeilDiv(Len(call.raws), call.chunk_size)
        /\ \A c \in DOMAIN ret.chunks :
              /\ c < Len(ret.chunks) => Len(ret.chunks[c]) = call.chunk_size
              /\ Len(ret.chunks[c]) \in 1..call.chunk_size
        /\ Len(Flatten(ret.chunks)) = Len(call.raws)
        /\ \A j \in DOMAIN call.raws :
              /\ Flatten(ret.chunks)[j] = call.engine_out[j]
              /\ ret.engine_in[j] = normalize_raw_text(call.raws[j])
        /\ yielded \in 0..Len(ret.chunks)
        /\ yielded > 0 =>
              DrawnChunk = SubSeq(call.engine_out, (yielded - 1) * call.chunk_size + 1,
                                  IF yielded * call.chunk_size < Len(call.raws)
                                  THEN yielded * call.chunk_size ELSE Len(call.raws))

C25_DrawnOnce ==
    (pc = "done" /\ pc' = "done" /\ call.op = "parse_chunks") =>
        /\ yielded' = yielded + 1
        /\ UNCHANGED <<call, ret>>

C25_ChunksOfParseChunks == [](C25_ChunkShape) /\ [][C25_DrawnOnce]_vars

C25_Witness ==
    /\ Done("parse_chunks")
    /\ Len(call.raws) = MaxBatch + 1 /\ call.chunk_size = MaxChunk
    /\ Len(call.engine_out) = Len(call.raws)
    /\ Len(ret.chunks) > 1 /\ Len(ret.chunks[Len(ret.chunks)]) < call.chunk_size
    /\ yielded = Len(ret.chunks)

(***************************************************************************)
(* Serialization of a record.                                              *)
(***************************************************************************)
Serialized == Done("to_dict")
RecordBuilt ==
    call_build_whois_record(call.raws[1], call.engine_out[1], call.lowercase,
                            call.date_parser).records[1]
RecordAfter == ret.records[1]
Data == ret.mappings[1]

\* An ISO-8601 text: the wall-clock time, then nothing, "Z" or +HH:MM.
IsIso8601(value) ==
    /\ value.t = "str" /\ value.v # <<>>
    /\ value.v[1] = "2020-01-01T00:00:00"
    /\ \/ Len(value.v) = 1
       \/ Tail(value.v) = <<"Z">>
       \/ /\ Len(value.v) = 7
          /\ value.v[2] \in {"+", "-"} /\ value.v[5] = ":"
          /\ \A i \in {3, 4, 6, 7} : IsDigit(value.v[i])

\* C26: the value to_dict returns is a mapping of the record's fields in
\* which every contact is a mapping of the contact's fields and every parsed
\* timestamp is an ISO-8601 text, every other field being the record's; its
\* keys are the record's, less raw_text when include_raw_text is false, and
\* what is under a key does not depend on the flag; the record is after the
\* call what build_whois_record made, raw_text included.
C26_ToDictPlainMapping ==
    LET Holds(built) ==
            /\ RecordAfter = built
            /\ "raw_text" \in DOMAIN RecordAfter
            /\ DOMAIN Data = IF call.to_records THEN DOMAIN built
                             ELSE DOMAIN built \ {"raw_text"}
            /\ \A k \in DOMAIN Data :
                  IF k \in ContactKeys
                  THEN Data[k].t = "dict" /\ Data[k].v = built[k]
                  ELSE IF k \in TimestampKeys /\ built[k].t = "datetime"
                  THEN /\ IsIso8601(Data[k])
                       /\ Data[k].v[1] = built[k].v[1]
                  ELSE Data[k] = built[k]
    IN  Serialized => Holds(RecordBuilt)

\* A record with an offset timestamp, serialized without its raw text.
C26_Witness ==
    /\ Serialized /\ ~call.to_records
    /\ call.engine_out[1] \in DateMaps
    /\ RecordAfter.registered_at.t = "datetime"
    /\ Data["registered_at"] = PyStr(<<"2020-01-01T00:00:00", "+", "0", "9", ":", "0", "0">>)
    /\ Data["registrant"] = PyDict(RecordAfter.registrant)
    /\ "raw_text" \notin DOMAIN Data
    /\ RecordAfter.raw_text = call.raws[1]

(***************************************************************************)
(* The batch form against the single form.                                 *)
(***************************************************************************)
\* The record parse_record returns for payload i of the batch, called with
\* the arguments of the batch and an engine that returns for the payload the
\* mapping it returned in the batch.
SingleRecord(i) ==
    parse_record(call.cache, call.raws[i], call.domain, call.tld, call.lowercase,
                 call.engine_out[i]).out.records

\* C27: parse_many with to_records, the engine returning one mapping per
\* payload: record i of the batch is the record parse_record returns for
\* payload i with the same suffix hint and lowercase flag, rate-limit
\* banners included.
C27_BatchMatchesSingle ==
    (/\ Done("parse_many") /\ call.to_records /\ ret.status = "ok"
     /\ Len(call.engine_out) = Len(call.raws)) =>
        \A i \in DOMAIN call.raws : <<ret.records[i]>> = SingleRecord(i)

(***************************************************************************)
(* Composition of rulesets.                                                *)
(***************************************************************************)
CompiledRuleset == ret.mappings[1]
CompiledSuffix == _normalise_tld(call.tld)

\* The layer the registry holds for a field of the suffix compiled, and the
\* patterns in the order of the composition rule, duplicates included.
HeldLayer(field) == LayerOf(registry_overrides, CompiledSuffix, field)
InOrder(field) ==
    (IF "prepend_patterns" \in DOMAIN HeldLayer(field)
     THEN HeldLayer(field)["prepend_patterns"] ELSE <<>>)
    \o (IF "patterns" \in DOMAIN HeldLayer(field) THEN HeldLayer(field)["patterns"]
        ELSE IF field \in DOMAIN registry_base THEN registry_base[field] ELSE <<>>)
    \o (IF "extend_patterns" \in DOMAIN HeldLayer(field)
        THEN HeldLayer(field)["extend_patterns"] ELSE <<>>)

FirstAt(list, pattern) ==
    CHOOSE i \in DOMAIN list : list[i] = pattern /\ \A j \in 1..(i - 1) : list[j] # pattern

\* composed is list with every later duplicate removed.
FirstWins(composed, list) ==
    /\ \A i, j \in DOMAIN composed : i # j => composed[i] # composed[j]
    /\ {composed[i] : i \in DOMAIN composed} = {list[i] : i \in DOMAIN list}
    /\ \A i, j \in DOMAIN composed :
          i < j => FirstAt(list, composed[i]) < FirstAt(list, composed[j])

\* C22: whatever register_base, extend_base and register_suffix calls came
\* before, the ruleset compiled for a suffix (or the default) gives every
\* field the prepend patterns, then the replacement patterns if given else
\* the base patterns, then the extend patterns, with every later duplicate
\* removed; no field has two equal patterns.
C22_RulesetComposition ==
    Done("build_structly_config_for_tld") =>
        \A field \in DOMAIN CompiledRuleset :
            FirstWins(CompiledRuleset[field], InOrder(field))

\* A ruleset compiled for a suffix with prepend and extend patterns that
\* repeat each other and the base patterns.
C22_Witness ==
    /\ Done("build_structly_config_for_tld")
    /\ CompiledSuffix = <<"uk">>
    /\ DOMAIN HeldLayer("domain_name") = {"prepend_patterns", "extend_patterns"}
    /\ Len(registry_base["domain_name"]) > 1
    /\ Len(CompiledRuleset["domain_name"]) < Len(InOrder("domain_name"))
    /\ CompiledRuleset["domain_name"][1] = HeldLayer("domain_name")["prepend_patterns"][1]

(***************************************************************************)
(* Registration of suffixes.                                               *)
(***************************************************************************)
Registering == pc = "idle" /\ pc' = "done" /\ call'.op = "register_tld"

C23_RefusedUnchanged ==
    (Registering /\ _normalise_tld(call'.tld) = <<>>) =>
        /\ ret'.status = "ValueError"
        /\ UNCHANGED <<registry_base, registry_overrides, rulesets, parsers>>

\* C23: a register_tld call whose suffix is empty after normalization raises
\* the ValueError of an empty label, and leaves the stored overrides and the
\* compiled-parser cache as they were.
C23_EmptySuffixRefused == [][C23_RefusedUnchanged]_vars

\* A refused registration of "." with overrides, on a facade that holds
\* stored layers and cached parsers.
C23_Witness ==
    /\ Done("register_tld") /\ call.tld = PyStr(<<".">>)
    /\ call.overrides # <<>> /\ call.preload
    /\ ret.status = "ValueError"
    /\ parsers = {<<"uk">>, <<"co", ".", "uk">>}
    /\ \E tld \in DOMAIN registry_overrides : registry_overrides[tld] # <<>>

(***************************************************************************)
(* Cached parsers against the stored overrides.                            *)
(***************************************************************************)
ParseOps == {"parse", "parse_record", "parse_many", "parse_chunks"}
Targets == pc = "done" /\ call.op \in ParseOps /\ ret.parser.kind = "suffix"

\* The ruleset of the overrides stored for a suffix now.
CurrentRuleset(tld) ==
    build_structly_config_for_tld(registry_base, registry_overrides, tld)

C24_CachedIsCurrent ==
    /\ DOMAIN rulesets = parsers
    /\ \A tld \in DOMAIN rulesets : rulesets[tld] = CurrentRuleset(tld)
    /\ Targets => ret.tld \in DOMAIN rulesets

C24_ReplacedOrRemoved ==
    (Registering /\ ret'.status = "ok") =>
        /\ call'.preload =>
              /\ ret'.tld \in DOMAIN rulesets'
              /\ rulesets'[ret'.tld] =
                     build_structly_config_for_tld(registry_base', registry_overrides',
                                                   ret'.tld)
        /\ ~call'.preload => ret'.tld \notin DOMAIN rulesets'
        /\ \A tld \in DOMAIN rulesets' \ {ret'.tld} :
              tld \in DOMAIN rulesets /\ rulesets'[tld] = rulesets[tld]

\* C24: after any sequence of register_tld and parse calls every cached
\* parser is the one compiled from the overrides stored for its suffix, and
\* a parse that targets a suffix uses the cached parser of that suffix;
\* register_tld with preload puts the parser compiled from the overrides
\* just stored in the cache, and without preload removes the suffix from
\* the cache, the other entries staying as they are.
C24_NoStaleRuleset == [](C24_CachedIsCurrent) /\ [][C24_ReplacedOrRemoved]_vars

\* A parse for uk after two registrations of uk, one with an extension and
\* one with a replacement: the parser used has both.
C24_Witness ==
    /\ Done("parse") /\ ret.tld = <<"uk">> /\ ret.parser = SuffixParser(<<"uk">>)
    /\ <<"uk">> \in DOMAIN registry_overrides
    /\ DOMAIN LayerOf(registry_overrides, <<"uk">>, "domain_name")
           = {"patterns", "extend_patterns"}
    /\ rulesets[<<"uk">>]["domain_name"] = <<"r", "q">>

(***************************************************************************)
(* Suffix resolution across parse calls and registrations.                 *)
(***************************************************************************)
Parsing == pc = "idle" /\ pc' = "done" /\ call'.op \in ParseOps

C28_SameResolution ==
    Parsing =>
        /\ UNCHANGED <<registry_base, registry_overrides>>
        /\ \A tld \in RegistryTlds, domain \in RegistryDomains :
              _select_tld(parsers', tld, domain) = _select_tld(parsers, tld, domain)

\* C28: a parse, parse_record, parse_many or parse_chunks call changes no
\* registration, and the suffix selected for any explicit suffix and domain
\* is after the call what it was before it.
C28_ParseKeepsResolution == [][C28_SameResolution]_vars

\* The suffixes that have a ruleset, stored in the registry or compiled; the
\* most specific candidate of a domain among them, <<>> when there is none.
RegisteredSuffixes == DOMAIN registry_overrides \cup parsers
RegisteredStarts(domain) ==
    {start \in 1..Len(_split_domain(domain)) :
        Candidate(_split_domain(domain), start) \in RegisteredSuffixes}
MostSpecificRegistered(domain) ==
    IF RegisteredStarts(domain) = {} THEN <<>>
    ELSE Candidate(_split_domain(domain),
                   CHOOSE s \in RegisteredStarts(domain) :
                       \A other \in RegisteredStarts(domain) : s <= other)

\* C29: whatever registrations (with preload or without) and parse calls
\* came before, the resolution with no explicit suffix of a domain that has
\* a registered suffix among its candidates returns the most specific of
\* them.
C29_RegisteredResolvable ==
    \A domain \in RegistryDomains :
        MostSpecificRegistered(domain) # <<>> =>
            _select_tld(parsers, PyNone, domain) = MostSpecificRegistered(domain)

(***************************************************************************)
(* The keys of the compiled-parser cache.                                  *)
(***************************************************************************)
NormalizedKey(key) ==
    /\ key # <<>>
    /\ Strip(key) = key
    /\ Lower(key) = key
    /\ key[1] # "."

SortedKeys(keys, listed) ==
    /\ Len(listed) = Cardinality(keys)
    /\ {listed[i] : i \in DOMAIN listed} = keys
    /\ \A i, j \in DOMAIN listed : i < j => TextBefore(listed[i], listed[j])

DefaultWithoutEntry ==
    (pc = "done" /\ call.op \in ParseOps /\ ret.tld = <<>>) =>
        /\ ret.parser.kind # "suffix"
        /\ parsers = call.cache

\* C30: after construction and any register_tld and parse calls no key of
\* the compiled-parser cache is empty, every key is trimmed, lowercase and
\* without a leading dot, supported_tlds is the sorted tuple of the keys,
\* and a call that resolves the empty suffix uses the default parser and
\* adds no key.
C30_CacheKeysNormalized ==
    /\ \A key \in parsers : NormalizedKey(key)
    /\ Done("supported_tlds") => SortedKeys(parsers, ret.mappings)
    /\ DefaultWithoutEntry

\* The same without the trimming of keys.
C30_Remainder ==
    /\ <<>> \notin parsers
    /\ \A key \in parsers : Lower(key) = key /\ key[1] # "."
    /\ Done("supported_tlds") => SortedKeys(parsers, ret.mappings)
    /\ DefaultWithoutEntry

====
